---- MODULE Spec2Model ----
(***************************************************************************)
(* Department / Employee CRUD service: the repository layer in its three   *)
(* implementations (in-memory maps, hand-written SQL on PostgreSQL, EntGo) *)
(* and the REST handlers that drive it, including the cascading delete of  *)
(* a department.                                                           *)
(***************************************************************************)
EXTENDS Integers, Sequences, FiniteSets, TLC

\* ------------------------------------------------------------------------
\* Bounds of the model
\* ------------------------------------------------------------------------
MaxDepts == 2
MaxEmps == 2
MaxName == 2

\* ------------------------------------------------------------------------
\* Values
\* ------------------------------------------------------------------------
\* Identifiers are strings.  A positive number k stands for the canonical
\* spelling of the k-th UUID (lower-case, hyphenated: what uuid.NewString()
\* and UUID.String() produce), -k for another spelling of the same UUID that
\* uuid.Parse and the database's uuid type accept (upper-case hex digits,
\* braces, urn:uuid: prefix), and BadId for a string that is no UUID at all
\* ("invalid-uuid", "invalid-dept-id").
BadId == 0
DeptIds == 1..MaxDepts
EmpIds == 1..MaxEmps

\* uuid.Parse: the UUID a well-formed string spells
ParseUUID(s) == IF s < 0 THEN 0 - s ELSE s

\* UUID.String(): the canonical spelling of a UUID
UUIDString(u) == u

\* Names are strings; the numbers 1..MaxName stand for non-empty names in
\* their lexicographic order, EmptyName for "".
EmptyName == 0
Names == 1..MaxName

\* the least of the non-empty names is a name of white space only (" "),
\* which strings.TrimSpace turns into ""
BlankName == 1

TrimSpace(name) == IF name = BlankName THEN EmptyName ELSE name

Emails == {"a@x.io", "b@x.io"}
BadEmails == {"", "nope"}

Impls == {"memory", "postgres", "ent"}

\* error values returned by the repositories
Nil == "nil"
ErrNotFound == "record not found"
ErrInvalidID == "invalid ID"
ErrConstraint == "driver: constraint violation"
ErrSyntax == "driver: invalid input syntax for type uuid"
ErrIO == "driver: connection failure"

\* What a caller can tell of a returned error without looking into the
\* driver's error: the sentinel ErrNotFound, the "invalid ... ID" error of
\* the Ent repositories, and for every other failure the same wrapper
\* fmt.Errorf("failed to ...: %w", err) around the driver's error.
ErrorKind(err) ==
    CASE err = ErrNotFound -> "NotFound"
      [] err = ErrInvalidID -> "InvalidInput"
      [] OTHER -> "failed to ...: driver error"

None == [none |-> TRUE]

VARIABLES impl, departments, employees, nextDept, nextEmp, pc, req, call, last,
          deptMu, empMu, inFlight

vars == <<impl, departments, employees, nextDept, nextEmp, pc, req, call, last,
          deptMu, empMu, inFlight>>

\* a sync.RWMutex: the goroutine that holds it for writing and the
\* goroutines that hold it for reading
Unlocked == [writer |-> "none", readers |-> {}]

\* ------------------------------------------------------------------------
\* Records
\* ------------------------------------------------------------------------
Department(id, name) == [ID |-> id, Name |-> name]

Employee(id, name, email, deptID) ==
    [ID |-> id, Name |-> name, Email |-> email, DepartmentID |-> deptID]

\* m with key k bound to v (insert or overwrite)
Put(m, k, v) == [x \in DOMAIN m \cup {k} |-> IF x = k THEN v ELSE m[x]]

\* m without key k
Remove(m, k) == [x \in DOMAIN m \ {k} |-> m[x]]

\* result of a repository call: the error, the returned value and the
\* contents of the two collections after the call
Result(err, val, depts, emps) ==
    [err |-> err, val |-> val, departments |-> depts, employees |-> emps]

Failed(err) == Result(err, None, departments, employees)

\* the sequences that list every element of the set S exactly once
RECURSIVE Perms(_)
Perms(S) ==
    IF S = {} THEN {<<>>}
    ELSE UNION {{<<x>> \o s : s \in Perms(S \ {x})} : x \in S}

SortedByName(s) == \A i \in 1..(Len(s) - 1) : s[i].Name <= s[i + 1].Name

Range(s) == {s[i] : i \in 1..Len(s)}

\* a Go slice: nil or a (possibly empty) sequence of records
Slice(isNil, rows) == [isNil |-> isNil, rows |-> rows]

\* ------------------------------------------------------------------------
\* In-memory repositories (maps guarded by deptMu / empMu)
\* ------------------------------------------------------------------------
InMemoryDepartmentRepo_Save(dept) ==
    Result(Nil, None, Put(departments, dept.ID, dept), employees)

InMemoryDepartmentRepo_FindByID(id) ==
    IF id \notin DOMAIN departments THEN Failed(ErrNotFound)
    ELSE Result(Nil, departments[id], departments, employees)

\* make([]*Department, 0, len) then append in map iteration order
InMemoryDepartmentRepo_FindAll ==
    {Result(Nil, Slice(FALSE, s), departments, employees) :
        s \in Perms({departments[k] : k \in DOMAIN departments})}

\* Update without the existence check: stores the record under its id
InMemoryDepartmentRepo_Update_Upsert(dept) ==
    Result(Nil, None, Put(departments, dept.ID, dept), employees)

InMemoryDepartmentRepo_Update(dept) ==
    IF dept.ID \notin DOMAIN departments THEN Failed(ErrNotFound)
    ELSE Result(Nil, None, Put(departments, dept.ID, dept), employees)

\* a Delete that also removes the employees of the department
InMemoryDepartmentRepo_Delete_Cascading(id) ==
    IF id \notin DOMAIN departments THEN Failed(ErrNotFound)
    ELSE Result(Nil, None, Remove(departments, id),
                [k \in {j \in DOMAIN employees : employees[j].DepartmentID # id}
                    |-> employees[k]])

\* Delete without the existence check: never reports NotFound
InMemoryDepartmentRepo_Delete_NoCheck(id) ==
    Result(Nil, None, Remove(departments, id), employees)

InMemoryDepartmentRepo_Delete(id) ==
    IF id \notin DOMAIN departments THEN Failed(ErrNotFound)
    ELSE Result(Nil, None, Remove(departments, id), employees)

InMemoryEmployeeRepo_Save(emp) ==
    Result(Nil, None, departments, Put(employees, emp.ID, emp))

InMemoryEmployeeRepo_FindByID(id) ==
    IF id \notin DOMAIN employees THEN Failed(ErrNotFound)
    ELSE Result(Nil, employees[id], departments, employees)

InMemoryEmployeeRepo_FindAll ==
    {Result(Nil, Slice(FALSE, s), departments, employees) :
        s \in Perms({employees[k] : k \in DOMAIN employees})}

\* Update that stores the record under its department's identifier
InMemoryEmployeeRepo_Update_KeyedByDepartment(emp) ==
    IF emp.ID \notin DOMAIN employees THEN Failed(ErrNotFound)
    ELSE Result(Nil, None, departments, Put(employees, emp.DepartmentID, emp))

InMemoryEmployeeRepo_Update(emp) ==
    IF emp.ID \notin DOMAIN employees THEN Failed(ErrNotFound)
    ELSE Result(Nil, None, departments, Put(employees, emp.ID, emp))

\* Delete that finds the key and returns nil without removing it
InMemoryEmployeeRepo_Delete_Keeps(id) ==
    IF id \notin DOMAIN employees THEN Failed(ErrNotFound)
    ELSE Result(Nil, None, departments, employees)

\* Delete without the existence check: never reports NotFound
InMemoryEmployeeRepo_Delete_NoCheck(id) ==
    Result(Nil, None, departments, Remove(employees, id))

InMemoryEmployeeRepo_Delete(id) ==
    IF id \notin DOMAIN employees THEN Failed(ErrNotFound)
    ELSE Result(Nil, None, departments, Remove(employees, id))

\* FindByDepartmentID without the department filter
InMemoryEmployeeRepo_FindByDepartmentID_NoFilter(deptID) ==
    {Result(Nil, Slice(DOMAIN employees = {}, s), departments, employees) :
        s \in Perms({employees[k] : k \in DOMAIN employees})}

\* var result []*Employee: stays nil when nothing is appended
InMemoryEmployeeRepo_FindByDepartmentID(deptID) ==
    LET match == {employees[k] : k \in {x \in DOMAIN employees :
                                          employees[x].DepartmentID = deptID}}
    IN {Result(Nil, Slice(match = {}, s), departments, employees) :
           s \in Perms(match)}

\* ------------------------------------------------------------------------
\* The relational store: tables departments and employees with a primary
\* key each, UNIQUE(email) and the foreign key employees.department_id ->
\* departments.id.  The id columns have type uuid: rows are keyed by the
\* UUID, which reads back in its canonical spelling.
\* ------------------------------------------------------------------------
SqlDepartment(dept) == Department(UUIDString(ParseUUID(dept.ID)), dept.Name)

SqlEmployee(emp) ==
    Employee(UUIDString(ParseUUID(emp.ID)), emp.Name, emp.Email,
             UUIDString(ParseUUID(emp.DepartmentID)))

EmailTaken(email, exceptID) ==
    \E k \in DOMAIN employees : k # exceptID /\ employees[k].Email = email

Referencing(deptID) ==
    {k \in DOMAIN employees : employees[k].DepartmentID = deptID}

SqlInsertDepartment(dept) ==
    IF dept.ID \in DOMAIN departments THEN Failed(ErrConstraint)
    ELSE Result(Nil, None, Put(departments, dept.ID, dept), employees)

SqlUpdateDepartment(dept) ==
    IF dept.ID \notin DOMAIN departments THEN Failed(ErrNotFound)
    ELSE Result(Nil, None, Put(departments, dept.ID, dept), employees)

\* ON DELETE CASCADE removes the referencing employees with the department;
\* ON DELETE NO ACTION rejects the delete while employees reference it
SqlDeleteDepartment(id, onDelete) ==
    IF id \notin DOMAIN departments THEN Failed(ErrNotFound)
    ELSE IF onDelete = "CASCADE"
         THEN Result(Nil, None, Remove(departments, id),
                     [k \in DOMAIN employees \ Referencing(id) |-> employees[k]])
         ELSE IF Referencing(id) # {} THEN Failed(ErrConstraint)
              ELSE Result(Nil, None, Remove(departments, id), employees)

SqlInsertEmployee(emp) ==
    IF \/ emp.ID \in DOMAIN employees
       \/ EmailTaken(emp.Email, emp.ID)
       \/ emp.DepartmentID \notin DOMAIN departments
    THEN Failed(ErrConstraint)
    ELSE Result(Nil, None, departments, Put(employees, emp.ID, emp))

\* an UPDATE that does not set department_id
SqlUpdateEmployee_KeepsDepartment(emp) ==
    IF emp.ID \notin DOMAIN employees THEN Failed(ErrNotFound)
    ELSE Result(Nil, None, departments,
                Put(employees, emp.ID,
                    [emp EXCEPT !.DepartmentID = employees[emp.ID].DepartmentID]))

SqlUpdateEmployee(emp) ==
    IF emp.ID \notin DOMAIN employees THEN Failed(ErrNotFound)
    ELSE IF \/ EmailTaken(emp.Email, emp.ID)
            \/ emp.DepartmentID \notin DOMAIN departments
         THEN Failed(ErrConstraint)
         ELSE Result(Nil, None, departments, Put(employees, emp.ID, emp))

SqlDeleteEmployee(id) ==
    IF id \notin DOMAIN employees THEN Failed(ErrNotFound)
    ELSE Result(Nil, None, departments, Remove(employees, id))

\* ------------------------------------------------------------------------
\* PostgreSQL repositories (hand-written SQL through pgx); fail = the
\* statement does not reach the database (connection failure / timeout)
\* ------------------------------------------------------------------------
PostgresDepartmentRepo_Save(dept, fail) ==
    IF fail THEN Failed(ErrIO)
    ELSE IF dept.ID = BadId THEN Failed(ErrSyntax)
    ELSE SqlInsertDepartment(SqlDepartment(dept))

PostgresDepartmentRepo_FindByID(id, fail) ==
    IF fail THEN Failed(ErrIO)
    ELSE IF id = BadId THEN Failed(ErrSyntax)
    ELSE IF ParseUUID(id) \notin DOMAIN departments THEN Failed(ErrNotFound)
    ELSE Result(Nil, departments[ParseUUID(id)], departments, employees)

\* FindAll that returns the nil slice of an empty result as it is
PostgresDepartmentRepo_FindAll_NilWhenEmpty(fail) ==
    IF fail THEN {Failed(ErrIO)}
    ELSE {Result(Nil, Slice(s = <<>>, s), departments, employees) :
             s \in {t \in Perms({departments[k] : k \in DOMAIN departments}) :
                       SortedByName(t)}}

\* SELECT ... ORDER BY name; a nil slice is replaced by an empty one
PostgresDepartmentRepo_FindAll(fail) ==
    IF fail THEN {Failed(ErrIO)}
    ELSE {Result(Nil, Slice(FALSE, s), departments, employees) :
             s \in {t \in Perms({departments[k] : k \in DOMAIN departments}) :
                       SortedByName(t)}}

PostgresDepartmentRepo_Update(dept, fail) ==
    IF fail THEN Failed(ErrIO)
    ELSE IF dept.ID = BadId THEN Failed(ErrSyntax)
    ELSE SqlUpdateDepartment(SqlDepartment(dept))

PostgresDepartmentRepo_Delete(id, fail) ==
    IF fail THEN Failed(ErrIO)
    ELSE IF id = BadId THEN Failed(ErrSyntax)
    ELSE SqlDeleteDepartment(ParseUUID(id), "CASCADE")

PostgresEmployeeRepo_Save(emp, fail) ==
    IF fail THEN Failed(ErrIO)
    ELSE IF emp.ID = BadId \/ emp.DepartmentID = BadId THEN Failed(ErrSyntax)
    ELSE SqlInsertEmployee(SqlEmployee(emp))

PostgresEmployeeRepo_FindByID(id, fail) ==
    IF fail THEN Failed(ErrIO)
    ELSE IF id = BadId THEN Failed(ErrSyntax)
    ELSE IF ParseUUID(id) \notin DOMAIN employees THEN Failed(ErrNotFound)
    ELSE Result(Nil, employees[ParseUUID(id)], departments, employees)

\* FindAll without ORDER BY name
PostgresEmployeeRepo_FindAll_Unordered(fail) ==
    IF fail THEN {Failed(ErrIO)}
    ELSE {Result(Nil, Slice(FALSE, s), departments, employees) :
             s \in Perms({employees[k] : k \in DOMAIN employees})}

PostgresEmployeeRepo_FindAll(fail) ==
    IF fail THEN {Failed(ErrIO)}
    ELSE {Result(Nil, Slice(FALSE, s), departments, employees) :
             s \in {t \in Perms({employees[k] : k \in DOMAIN employees}) :
                       SortedByName(t)}}

PostgresEmployeeRepo_Update(emp, fail) ==
    IF fail THEN Failed(ErrIO)
    ELSE IF emp.ID = BadId \/ emp.DepartmentID = BadId THEN Failed(ErrSyntax)
    ELSE SqlUpdateEmployee(SqlEmployee(emp))

PostgresEmployeeRepo_Delete(id, fail) ==
    IF fail THEN Failed(ErrIO)
    ELSE IF id = BadId THEN Failed(ErrSyntax)
    ELSE SqlDeleteEmployee(ParseUUID(id))

PostgresEmployeeRepo_FindByDepartmentID(deptID, fail) ==
    IF fail THEN {Failed(ErrIO)}
    ELSE IF deptID = BadId THEN {Failed(ErrSyntax)}
    ELSE {Result(Nil, Slice(FALSE, s), departments, employees) :
             s \in {t \in Perms({employees[k] :
                                    k \in Referencing(ParseUUID(deptID))}) :
                       SortedByName(t)}}

\* ------------------------------------------------------------------------
\* EntGo repositories: uuid.Parse first, then the generated client; rows
\* are converted back with ID.String()
\* ------------------------------------------------------------------------
EntDepartmentRepo_Save(dept, fail) ==
    IF dept.ID = BadId THEN Failed(ErrInvalidID)
    ELSE IF fail THEN Failed(ErrIO)
    ELSE SqlInsertDepartment(SqlDepartment(dept))

EntDepartmentRepo_FindByID(id, fail) ==
    IF id = BadId THEN Failed(ErrInvalidID)
    ELSE IF fail THEN Failed(ErrIO)
    ELSE IF ParseUUID(id) \notin DOMAIN departments THEN Failed(ErrNotFound)
    ELSE Result(Nil, departments[ParseUUID(id)], departments, employees)

\* Query().All(ctx) without an Order: the rows come in the order the
\* database chooses; make([]*Department, len) is never nil
EntDepartmentRepo_FindAll(fail) ==
    IF fail THEN {Failed(ErrIO)}
    ELSE {Result(Nil, Slice(FALSE, s), departments, employees) :
             s \in Perms({departments[k] : k \in DOMAIN departments})}

EntDepartmentRepo_Update(dept, fail) ==
    IF dept.ID = BadId THEN Failed(ErrInvalidID)
    ELSE IF fail THEN Failed(ErrIO)
    ELSE SqlUpdateDepartment(SqlDepartment(dept))

EntDepartmentRepo_Delete(id, fail) ==
    IF id = BadId THEN Failed(ErrInvalidID)
    ELSE IF fail THEN Failed(ErrIO)
    ELSE SqlDeleteDepartment(ParseUUID(id), "NO ACTION")

\* Save that returns before the create builder is executed
EntEmployeeRepo_Save_NotExecuted(emp, fail) ==
    IF emp.ID = BadId \/ emp.DepartmentID = BadId THEN Failed(ErrInvalidID)
    ELSE IF fail THEN Failed(ErrIO)
    ELSE Result(Nil, None, departments, employees)

EntEmployeeRepo_Save(emp, fail) ==
    IF emp.ID = BadId \/ emp.DepartmentID = BadId THEN Failed(ErrInvalidID)
    ELSE IF fail THEN Failed(ErrIO)
    ELSE SqlInsertEmployee(SqlEmployee(emp))

EntEmployeeRepo_FindByID(id, fail) ==
    IF id = BadId THEN Failed(ErrInvalidID)
    ELSE IF fail THEN Failed(ErrIO)
    ELSE IF ParseUUID(id) \notin DOMAIN employees THEN Failed(ErrNotFound)
    ELSE Result(Nil, employees[ParseUUID(id)], departments, employees)

EntEmployeeRepo_FindAll(fail) ==
    IF fail THEN {Failed(ErrIO)}
    ELSE {Result(Nil, Slice(FALSE, s), departments, employees) :
             s \in Perms({employees[k] : k \in DOMAIN employees})}

EntEmployeeRepo_Update(emp, fail) ==
    IF emp.ID = BadId \/ emp.DepartmentID = BadId THEN Failed(ErrInvalidID)
    ELSE IF fail THEN Failed(ErrIO)
    ELSE SqlUpdateEmployee(SqlEmployee(emp))

EntEmployeeRepo_Delete(id, fail) ==
    IF id = BadId THEN Failed(ErrInvalidID)
    ELSE IF fail THEN Failed(ErrIO)
    ELSE SqlDeleteEmployee(ParseUUID(id))

EntEmployeeRepo_FindByDepartmentID(deptID, fail) ==
    IF deptID = BadId THEN {Failed(ErrInvalidID)}
    ELSE IF fail THEN {Failed(ErrIO)}
    ELSE {Result(Nil, Slice(FALSE, s), departments, employees) :
             s \in Perms({employees[k] : k \in Referencing(ParseUUID(deptID))})}

\* ------------------------------------------------------------------------
\* The repository interfaces, bound at start-up to one implementation
\* ------------------------------------------------------------------------
\* the in-memory maps cannot fail; a database call can
\* a pair of requests is being compared (see SpecPair)
Paired == call.repo = "pair"

Fails == IF impl = "memory" \/ Paired THEN {FALSE} ELSE BOOLEAN

DeptRepo_Save(dept, fail) ==
    CASE impl = "memory" -> InMemoryDepartmentRepo_Save(dept)
      [] impl = "postgres" -> PostgresDepartmentRepo_Save(dept, fail)
      [] impl = "ent" -> EntDepartmentRepo_Save(dept, fail)

DeptRepo_FindByID(id, fail) ==
    CASE impl = "memory" -> InMemoryDepartmentRepo_FindByID(id)
      [] impl = "postgres" -> PostgresDepartmentRepo_FindByID(id, fail)
      [] impl = "ent" -> EntDepartmentRepo_FindByID(id, fail)

DeptRepo_FindAll(fail) ==
    CASE impl = "memory" -> InMemoryDepartmentRepo_FindAll
      [] impl = "postgres" -> PostgresDepartmentRepo_FindAll(fail)
      [] impl = "ent" -> EntDepartmentRepo_FindAll(fail)

DeptRepo_Update(dept, fail) ==
    CASE impl = "memory" -> InMemoryDepartmentRepo_Update(dept)
      [] impl = "postgres" -> PostgresDepartmentRepo_Update(dept, fail)
      [] impl = "ent" -> EntDepartmentRepo_Update(dept, fail)

DeptRepo_Delete(id, fail) ==
    CASE impl = "memory" -> InMemoryDepartmentRepo_Delete(id)
      [] impl = "postgres" -> PostgresDepartmentRepo_Delete(id, fail)
      [] impl = "ent" -> EntDepartmentRepo_Delete(id, fail)

EmpRepo_Save(emp, fail) ==
    CASE impl = "memory" -> InMemoryEmployeeRepo_Save(emp)
      [] impl = "postgres" -> PostgresEmployeeRepo_Save(emp, fail)
      [] impl = "ent" -> EntEmployeeRepo_Save(emp, fail)

EmpRepo_FindByID(id, fail) ==
    CASE impl = "memory" -> InMemoryEmployeeRepo_FindByID(id)
      [] impl = "postgres" -> PostgresEmployeeRepo_FindByID(id, fail)
      [] impl = "ent" -> EntEmployeeRepo_FindByID(id, fail)

EmpRepo_FindAll(fail) ==
    CASE impl = "memory" -> InMemoryEmployeeRepo_FindAll
      [] impl = "postgres" -> PostgresEmployeeRepo_FindAll(fail)
      [] impl = "ent" -> EntEmployeeRepo_FindAll(fail)

EmpRepo_Update(emp, fail) ==
    CASE impl = "memory" -> InMemoryEmployeeRepo_Update(emp)
      [] impl = "postgres" -> PostgresEmployeeRepo_Update(emp, fail)
      [] impl = "ent" -> EntEmployeeRepo_Update(emp, fail)

EmpRepo_Delete(id, fail) ==
    CASE impl = "memory" -> InMemoryEmployeeRepo_Delete(id)
      [] impl = "postgres" -> PostgresEmployeeRepo_Delete(id, fail)
      [] impl = "ent" -> EntEmployeeRepo_Delete(id, fail)

EmpRepo_FindByDepartmentID(deptID, fail) ==
    CASE impl = "memory" -> InMemoryEmployeeRepo_FindByDepartmentID(deptID)
      [] impl = "postgres" -> PostgresEmployeeRepo_FindByDepartmentID(deptID, fail)
      [] impl = "ent" -> EntEmployeeRepo_FindByDepartmentID(deptID, fail)

\* ------------------------------------------------------------------------
\* Initial state: an empty store behind one of the implementations
\* ------------------------------------------------------------------------
Procs == {"r1", "r2"}

NoCall == [repo |-> "none", op |-> "none", arg |-> None, err |-> Nil,
           val |-> None, prev |-> "first call"]

NoReq == [op |-> "none"]

Init ==
    /\ impl \in Impls
    /\ departments = <<>>
    /\ employees = <<>>
    /\ nextDept = 0
    /\ nextEmp = 0
    /\ pc = [p \in Procs |-> "idle"]
    /\ req = [p \in Procs |-> NoReq]
    /\ call = NoCall
    /\ last = None
    /\ deptMu = Unlocked
    /\ empMu = Unlocked
    /\ inFlight = 1

\* ------------------------------------------------------------------------
\* Direct calls of the repository interfaces (as the repository tests and
\* any other client of the interfaces make them).  call holds the call
\* that has just been made, with its result, until the client has consumed
\* it (CallReturn); the client may also repeat a Delete at once, and prev
\* is then the error of the first of the two calls ("first call" when the
\* call repeats nothing).  Of the argument of a failed call only the
\* identifier is kept.
\* ------------------------------------------------------------------------
Kept(op, arg, err) ==
    IF op \in {"Save", "Update"} /\ err # Nil THEN [ID |-> arg.ID] ELSE arg

Record(repo, op, arg, r) ==
    [repo |-> repo, op |-> op, arg |-> Kept(op, arg, r.err), err |-> r.err,
     val |-> r.val,
     prev |-> IF call.repo = repo /\ call.op = op /\ call.arg = arg
              THEN call.err ELSE "first call"]

Ready(repo, op, arg) ==
    \/ call = NoCall
    \/ op = "Delete" /\ call.repo = repo /\ call.op = op /\ call.arg = arg

Apply(repo, op, arg, r) ==
    /\ Ready(repo, op, arg)
    /\ departments' = r.departments
    /\ employees' = r.employees
    /\ call' = Record(repo, op, arg, r)
    /\ UNCHANGED <<impl, deptMu, empMu, inFlight, pc, req, last>>

\* uuid.New(): an identifier no row has had before
NewDeptID == nextDept + 1

NewEmpID == nextEmp + 1

\* The identifier strings a caller may pass for the UUIDs in ids.  The
\* in-memory maps compare identifiers as strings, so that another spelling
\* of a UUID is just another identifier to them; the spellings are
\* enumerated for the implementations that parse identifiers.
Spellings(ids) ==
    ids \cup (IF impl = "memory" THEN {} ELSE {0 - i : i \in ids})

IdArgs(ids) == Spellings(ids) \cup {BadId}

CallDeptSave ==
    \E id \in IdArgs({NewDeptID}), name \in Names :
        LET dept == Department(id, name)
            r == DeptRepo_Save(dept, FALSE)
        IN /\ nextDept < MaxDepts
           /\ Apply("dept", "Save", dept, r)
           /\ nextDept' = IF r.err = Nil THEN nextDept + 1 ELSE nextDept
           /\ UNCHANGED nextEmp

CallDeptFindByID ==
    \E id \in IdArgs(DeptIds) :
        /\ Apply("dept", "FindByID", id, DeptRepo_FindByID(id, FALSE))
        /\ UNCHANGED <<nextDept, nextEmp>>

CallDeptFindAll ==
    \E r \in DeptRepo_FindAll(FALSE) :
        /\ Apply("dept", "FindAll", None, r)
        /\ UNCHANGED <<nextDept, nextEmp>>

CallDeptUpdate ==
    \E id \in IdArgs(DeptIds), name \in Names :
        LET dept == Department(id, name)
        IN /\ Apply("dept", "Update", dept, DeptRepo_Update(dept, FALSE))
           /\ UNCHANGED <<nextDept, nextEmp>>

CallDeptDelete ==
    \E id \in IdArgs(DeptIds) :
        /\ Apply("dept", "Delete", id, DeptRepo_Delete(id, FALSE))
        /\ UNCHANGED <<nextDept, nextEmp>>

CallEmpSave ==
    \E id \in IdArgs({NewEmpID}), name \in Names, email \in Emails,
       deptID \in Spellings(DeptIds) :
        LET emp == Employee(id, name, email, deptID)
            r == EmpRepo_Save(emp, FALSE)
        IN /\ nextEmp < MaxEmps
           /\ Apply("emp", "Save", emp, r)
           /\ nextEmp' = IF r.err = Nil THEN nextEmp + 1 ELSE nextEmp
           /\ UNCHANGED nextDept

CallEmpFindByID ==
    \E id \in IdArgs(EmpIds) :
        /\ Apply("emp", "FindByID", id, EmpRepo_FindByID(id, FALSE))
        /\ UNCHANGED <<nextDept, nextEmp>>

CallEmpFindAll ==
    \E r \in EmpRepo_FindAll(FALSE) :
        /\ Apply("emp", "FindAll", None, r)
        /\ UNCHANGED <<nextDept, nextEmp>>

CallEmpUpdate ==
    \E id \in IdArgs(EmpIds), name \in Names, email \in Emails,
       deptID \in Spellings(DeptIds) :
        LET emp == Employee(id, name, email, deptID)
        IN /\ Apply("emp", "Update", emp, EmpRepo_Update(emp, FALSE))
           /\ UNCHANGED <<nextDept, nextEmp>>

CallEmpDelete ==
    \E id \in IdArgs(EmpIds) :
        /\ Apply("emp", "Delete", id, EmpRepo_Delete(id, FALSE))
        /\ UNCHANGED <<nextDept, nextEmp>>

CallEmpFindByDepartmentID ==
    \E deptID \in IdArgs(DeptIds) :
        \E r \in EmpRepo_FindByDepartmentID(deptID, FALSE) :
            /\ Apply("emp", "FindByDepartmentID", deptID, r)
            /\ UNCHANGED <<nextDept, nextEmp>>

CallReturn ==
    /\ call # NoCall
    /\ call' = NoCall
    /\ UNCHANGED <<impl, deptMu, empMu, inFlight,
                   departments, employees, nextDept, nextEmp, pc, req, last>>

NextRepo ==
    \/ CallReturn
    \/ CallDeptSave
    \/ CallDeptFindByID
    \/ CallDeptFindAll
    \/ CallDeptUpdate
    \/ CallDeptDelete
    \/ CallEmpSave
    \/ CallEmpFindByID
    \/ CallEmpFindAll
    \/ CallEmpUpdate
    \/ CallEmpDelete
    \/ CallEmpFindByDepartmentID

SpecRepo == Init /\ [][NextRepo]_vars

\* ------------------------------------------------------------------------
\* The REST handlers.  Every request is served by its own goroutine (r in
\* Procs); a step is one repository call, or one write through a pointer
\* into the in-memory store, together with the handler's local code around
\* it.  last holds the response that has just been sent, until the client
\* has received it (Respond).
\* ------------------------------------------------------------------------
\* the body json.Marshal renders for a slice
JSON(slice) == IF slice.isNil THEN "null" ELSE slice.rows

\* Handler.List: 500 on an error, otherwise the rows, a nil slice being
\* replaced by an empty one
Handler_List(r) ==
    IF r.err # Nil THEN [status |-> 500, body |-> "Failed to retrieve"]
    ELSE [status |-> 200,
          body |-> JSON(IF r.val.isNil THEN Slice(FALSE, <<>>) ELSE r.val)]

Response(op, id, status, msg) ==
    [op |-> op, id |-> id, status |-> status, msg |-> msg, solo |-> TRUE,
     body |-> None, dept |-> BadId, cascade |-> <<>>, failed |-> <<>>,
     was |-> None, err |-> Nil, io |-> FALSE, by |-> "none"]

\* resp, sent because a repository call returned err
Caused(err, resp) == [resp EXCEPT !.err = err]

\* a response that carries a JSON body
Answer(op, id, status, body) ==
    [Response(op, id, status, "") EXCEPT !.body = body]

\* c.ShouldBindJSON with binding:"required" and binding:"required,email"
BindName(name) == name # EmptyName

BindEmail(email) == email \notin BadEmails

\* the names and emails the clients send in request bodies: any of them
\* when requests are served one at a time, one valid name and one valid
\* email when the requests overlap
NameArgs ==
    IF Paired THEN {MaxName}
    ELSE IF inFlight = 1 THEN Names \cup {EmptyName} ELSE {MaxName}

EmailArgs ==
    IF Paired THEN Emails
    ELSE IF inFlight = 1 THEN Emails \cup BadEmails ELSE {"a@x.io"}

\* req with r's entry replaced by x; a cascade of another request that is
\* under way is told that r has taken a step meanwhile
Stepped(r, x) ==
    [q \in Procs |->
        IF q = r THEN x
        ELSE IF req[q].op = "DeptDelete" THEN [req[q] EXCEPT !.solo = FALSE]
        ELSE req[q]]

Others(r) == Procs \ {r}

\* the handler of r returns with response resp
Finish(r, resp) ==
    /\ pc' = [pc EXCEPT ![r] = "idle"]
    /\ req' = Stepped(r, NoReq)
    /\ last' = IF Paired THEN [resp EXCEPT !.by = r] ELSE resp

\* the handler of r goes on to position at with locals x
Goto(r, at, x) ==
    /\ pc' = [pc EXCEPT ![r] = at]
    /\ req' = Stepped(r, x)
    /\ last' = None

Commit(res) ==
    /\ departments' = res.departments
    /\ employees' = res.employees

\* inFlight is the number of requests the clients keep under way at a
\* time; with inFlight = 1 requests are served one at a time: a request is
\* taken up when no other is under way
Serial(r) == Cardinality({q \in Others(r) : pc[q] # "idle"}) < inFlight

\* of a pair of requests that is being compared, each client sends its
\* own once
Unserved(r) == Paired => call.got[r] = None

Idle(r) == pc[r] = "idle" /\ last = None /\ Serial(r) /\ Unserved(r)

At(r, at) == pc[r] = at /\ last = None

\* ---- department.Handler ----
DeptCreate(r) ==
    /\ Idle(r)
    /\ nextDept < MaxDepts
    /\ \E name \in NameArgs, fail \in Fails :
          IF ~BindName(name)
          THEN /\ Finish(r, Response("DeptCreate", BadId, 400, "bind"))
               /\ UNCHANGED <<departments, employees, nextDept>>
          ELSE LET dept == Department(NewDeptID, name)
                   res == DeptRepo_Save(dept, fail)
               IN /\ Commit(res)
                  /\ nextDept' = nextDept + 1
                  /\ Finish(r, IF res.err # Nil
                               THEN Caused(res.err,
                                           Response("DeptCreate", dept.ID, 500,
                                                    "Failed to create department"))
                               ELSE Answer("DeptCreate", dept.ID, 201, dept))
    /\ UNCHANGED <<impl, deptMu, empMu, inFlight, nextEmp, call>>

DeptGet(r) ==
    /\ Idle(r)
    /\ \E id \in IdArgs(DeptIds), fail \in Fails :
          LET res == DeptRepo_FindByID(id, fail)
          IN Finish(r, IF res.err # Nil
                       THEN Caused(res.err,
                                   Response("DeptGet", id, 404,
                                            "Department not found"))
                       ELSE Answer("DeptGet", id, 200, res.val))
    /\ UNCHANGED <<impl, deptMu, empMu, inFlight,
                   departments, employees, nextDept, nextEmp, call>>

DeptList(r) ==
    /\ Idle(r)
    /\ \E fail \in Fails : \E res \in DeptRepo_FindAll(fail) :
          LET out == Handler_List(res)
          IN Finish(r, Caused(res.err,
                              Answer("DeptList", BadId, out.status, out.body)))
    /\ UNCHANGED <<impl, deptMu, empMu, inFlight,
                   departments, employees, nextDept, nextEmp, call>>

DeptUpdateFind(r) ==
    /\ Idle(r)
    /\ \E id \in IdArgs(DeptIds), fail \in Fails :
          LET res == DeptRepo_FindByID(id, fail)
          IN IF res.err # Nil
             THEN Finish(r, Caused(res.err,
                                   Response("DeptUpdate", id, 404,
                                            "Department not found")))
             ELSE Goto(r, "DeptUpdate:bind",
                       [op |-> "DeptUpdate", id |-> id, existing |-> res.val.ID])
    /\ UNCHANGED <<impl, deptMu, empMu, inFlight,
                   departments, employees, nextDept, nextEmp, call>>

\* existingDept.Name = req.Name: in the in-memory store existingDept is the
\* pointer the map holds, so that the assignment changes the stored record
DeptUpdateBind(r) ==
    /\ At(r, "DeptUpdate:bind")
    /\ \E name \in NameArgs :
          IF ~BindName(name)
          THEN /\ Finish(r, Response("DeptUpdate", req[r].id, 400, "bind"))
               /\ UNCHANGED departments
          ELSE LET k == req[r].existing
               IN /\ departments' =
                        IF impl = "memory" /\ k \in DOMAIN departments
                        THEN [departments EXCEPT ![k].Name = name]
                        ELSE departments
                  /\ Goto(r, "DeptUpdate:update",
                          [op |-> "DeptUpdate", id |-> req[r].id,
                           existing |-> Department(k, name)])
    /\ UNCHANGED <<impl, deptMu, empMu, inFlight,
                   employees, nextDept, nextEmp, call>>

DeptUpdateUpdate(r) ==
    /\ At(r, "DeptUpdate:update")
    /\ \E fail \in Fails :
          LET res == DeptRepo_Update(req[r].existing, fail)
          IN /\ Commit(res)
             /\ Finish(r, IF res.err # Nil
                          THEN Caused(res.err,
                                      Response("DeptUpdate", req[r].id, 500,
                                               "Failed to update department"))
                          ELSE Answer("DeptUpdate", req[r].id, 200,
                                        req[r].existing))
    /\ UNCHANGED <<impl, deptMu, empMu, inFlight, nextDept, nextEmp, call>>

\* a Delete that goes on whatever FindByID returns
DeptDeleteVerify_Unchecked(r) ==
    /\ Idle(r)
    /\ \E id \in IdArgs(DeptIds) :
          Goto(r, "DeptDelete:enumerate",
               [op |-> "DeptDelete", id |-> id,
                solo |-> \A q \in Others(r) : pc[q] = "idle"])
    /\ UNCHANGED <<impl, deptMu, empMu, inFlight,
                   departments, employees, nextDept, nextEmp, call>>

\* Delete, step 1: the department must exist
DeptDeleteVerify(r) ==
    /\ Idle(r)
    /\ \E id \in IdArgs(DeptIds), fail \in Fails :
          LET res == DeptRepo_FindByID(id, fail)
          IN IF res.err # Nil
             THEN Finish(r, Caused(res.err,
                                   Response("DeptDelete", id, 404,
                                            "Department not found")))
             ELSE Goto(r, "DeptDelete:enumerate",
                       [op |-> "DeptDelete", id |-> id,
                        solo |-> \A q \in Others(r) : pc[q] = "idle"])
    /\ UNCHANGED <<impl, deptMu, empMu, inFlight,
                   departments, employees, nextDept, nextEmp, call>>

\* the ids of the employees the handler ranges over
Enumerated(res) ==
    IF res.err = Nil THEN [i \in 1..Len(res.val.rows) |-> res.val.rows[i].ID]
    ELSE <<>>

\* an Enumerate that takes a failed lookup for "no employees"
DeptDeleteEnumerate_Ignore(r) ==
    /\ At(r, "DeptDelete:enumerate")
    /\ \E fail \in Fails : \E res \in EmpRepo_FindByDepartmentID(req[r].id, fail) :
          Goto(r, "DeptDelete:cascade",
               [op |-> "DeptDelete", id |-> req[r].id, solo |-> req[r].solo,
                cascade |-> Enumerated(res), employees |-> Enumerated(res),
                failed |-> <<>>, io |-> FALSE])
    /\ UNCHANGED <<impl, deptMu, empMu, inFlight,
                   departments, employees, nextDept, nextEmp, call>>

\* Delete, step 2: the employees of the department
DeptDeleteEnumerate(r) ==
    /\ At(r, "DeptDelete:enumerate")
    /\ \E fail \in Fails : \E res \in EmpRepo_FindByDepartmentID(req[r].id, fail) :
          IF res.err # Nil /\ res.err # ErrNotFound
          THEN Finish(r, [Caused(res.err,
                                 Response("DeptDelete", req[r].id, 500,
                                          "Failed to check department employees"))
                             EXCEPT !.solo = req[r].solo])
          ELSE Goto(r, "DeptDelete:cascade",
                    [op |-> "DeptDelete", id |-> req[r].id, solo |-> req[r].solo,
                     cascade |-> Enumerated(res), employees |-> Enumerated(res),
                     failed |-> <<>>, io |-> FALSE])
    /\ UNCHANGED <<impl, deptMu, empMu, inFlight,
                   departments, employees, nextDept, nextEmp, call>>

\* a loop that deletes no employee
DeptDeleteCascade_Skip(r) ==
    /\ At(r, "DeptDelete:cascade")
    /\ req[r].employees # <<>>
    /\ Goto(r, "DeptDelete:cascade",
            [req[r] EXCEPT !.employees = Tail(req[r].employees)])
    /\ UNCHANGED <<impl, deptMu, empMu, inFlight,
                   departments, employees, nextDept, nextEmp, call>>

\* a loop that gives up at the first employee it cannot delete
DeptDeleteCascade_Abort(r) ==
    /\ At(r, "DeptDelete:cascade")
    /\ req[r].employees # <<>>
    /\ \E fail \in Fails :
          LET res == EmpRepo_Delete(Head(req[r].employees), fail)
          IN /\ Commit(res)
             /\ IF res.err # Nil
                THEN Finish(r, Caused(res.err,
                                      Response("DeptDelete", req[r].id, 500,
                                               "Failed to delete employee")))
                ELSE Goto(r, "DeptDelete:cascade",
                          [req[r] EXCEPT !.employees = Tail(req[r].employees)])
    /\ UNCHANGED <<impl, deptMu, empMu, inFlight, nextDept, nextEmp, call>>

\* Delete, step 3: one turn of the loop; a failed delete is skipped
DeptDeleteCascade(r) ==
    /\ At(r, "DeptDelete:cascade")
    /\ req[r].employees # <<>>
    /\ \E fail \in Fails :
          LET res == EmpRepo_Delete(Head(req[r].employees), fail)
          IN /\ Commit(res)
             /\ Goto(r, "DeptDelete:cascade",
                     [req[r] EXCEPT !.employees = Tail(req[r].employees),
                                    !.failed = IF res.err # Nil
                                               THEN Append(@, Head(req[r].employees))
                                               ELSE @,
                                    !.io = @ \/ res.err = ErrIO])
    /\ UNCHANGED <<impl, deptMu, empMu, inFlight, nextDept, nextEmp, call>>

\* a department delete that does not wait for the end of the loop
DeptDeleteDelete_Early(r) ==
    /\ At(r, "DeptDelete:cascade")
    /\ \E fail \in Fails :
          LET res == DeptRepo_Delete(req[r].id, fail)
          IN /\ Commit(res)
             /\ Finish(r, [Response("DeptDelete", req[r].id,
                                    IF res.err # Nil THEN 500 ELSE 204,
                                    IF res.err # Nil
                                    THEN "Failed to delete department"
                                    ELSE "No Content")
                              EXCEPT !.err = res.err,
                                     !.solo = req[r].solo,
                                     !.cascade = req[r].cascade,
                                     !.failed = req[r].failed,
                                     !.io = req[r].io])
    /\ UNCHANGED <<impl, deptMu, empMu, inFlight, nextDept, nextEmp, call>>

\* a last step that answers 204 whatever repo.Delete returns
DeptDeleteDelete_AlwaysNoContent(r) ==
    /\ At(r, "DeptDelete:cascade")
    /\ req[r].employees = <<>>
    /\ \E fail \in Fails :
          LET res == DeptRepo_Delete(req[r].id, fail)
          IN /\ Commit(res)
             /\ Finish(r, [Response("DeptDelete", req[r].id, 204, "No Content")
                              EXCEPT !.solo = req[r].solo,
                                     !.cascade = req[r].cascade,
                                     !.failed = req[r].failed])
    /\ UNCHANGED <<impl, deptMu, empMu, inFlight, nextDept, nextEmp, call>>

\* Delete, step 4: the department itself
DeptDeleteDelete(r) ==
    /\ At(r, "DeptDelete:cascade")
    /\ req[r].employees = <<>>
    /\ \E fail \in Fails :
          LET res == DeptRepo_Delete(req[r].id, fail)
          IN /\ Commit(res)
             /\ Finish(r, [Response("DeptDelete", req[r].id,
                                    IF res.err # Nil THEN 500 ELSE 204,
                                    IF res.err # Nil
                                    THEN "Failed to delete department"
                                    ELSE "No Content")
                              EXCEPT !.err = res.err,
                                     !.solo = req[r].solo,
                                     !.cascade = req[r].cascade,
                                     !.failed = req[r].failed,
                                     !.io = req[r].io])
    /\ UNCHANGED <<impl, deptMu, empMu, inFlight, nextDept, nextEmp, call>>

\* ---- employee.Handler ----
\* a Create that does not look the department up
EmpCreateValidate_NoGate(r) ==
    /\ Idle(r)
    /\ nextEmp < MaxEmps
    /\ \E name \in NameArgs, email \in EmailArgs,
          deptID \in IdArgs(DeptIds) :
          IF ~(BindName(name) /\ BindEmail(email))
          THEN Finish(r, Response("EmpCreate", BadId, 400, "bind"))
          ELSE Goto(r, "EmpCreate:save",
                    [op |-> "EmpCreate",
                     emp |-> Employee(BadId, name, email, deptID)])
    /\ UNCHANGED <<impl, deptMu, empMu, inFlight,
                   departments, employees, nextDept, nextEmp, call>>

\* Create up to the department check: bind, then deptRepo.FindByID
EmpCreateValidate(r) ==
    /\ Idle(r)
    /\ nextEmp < MaxEmps
    /\ \E name \in NameArgs, email \in EmailArgs,
          deptID \in IdArgs(DeptIds), fail \in Fails :
          IF ~(BindName(name) /\ BindEmail(email))
          THEN Finish(r, Response("EmpCreate", BadId, 400, "bind"))
          ELSE IF DeptRepo_FindByID(deptID, fail).err # Nil
          THEN Finish(r, [Caused(DeptRepo_FindByID(deptID, fail).err,
                                 Response("EmpCreate", BadId, 400,
                                          "Invalid department ID"))
                             EXCEPT !.dept = deptID])
          ELSE Goto(r, "EmpCreate:save",
                    [op |-> "EmpCreate",
                     emp |-> Employee(BadId, name, email, deptID)])
    /\ UNCHANGED <<impl, deptMu, empMu, inFlight,
                   departments, employees, nextDept, nextEmp, call>>

EmpCreateSave(r) ==
    /\ At(r, "EmpCreate:save")
    /\ nextEmp < MaxEmps
    /\ \E fail \in Fails :
          LET emp == [req[r].emp EXCEPT !.ID = NewEmpID]
              res == EmpRepo_Save(emp, fail)
          IN /\ Commit(res)
             /\ nextEmp' = nextEmp + 1
             /\ Finish(r, IF res.err # Nil
                          THEN Caused(res.err,
                                      Response("EmpCreate", emp.ID, 500,
                                               "Failed to create employee"))
                          ELSE Answer("EmpCreate", emp.ID, 201, emp))
    /\ UNCHANGED <<impl, deptMu, empMu, inFlight, nextDept, call>>

EmpGet(r) ==
    /\ Idle(r)
    /\ \E id \in IdArgs(EmpIds), fail \in Fails :
          LET res == EmpRepo_FindByID(id, fail)
          IN Finish(r, IF res.err # Nil
                       THEN Caused(res.err,
                                   Response("EmpGet", id, 404,
                                            "Employee not found"))
                       ELSE Answer("EmpGet", id, 200, res.val))
    /\ UNCHANGED <<impl, deptMu, empMu, inFlight,
                   departments, employees, nextDept, nextEmp, call>>

EmpList(r) ==
    /\ Idle(r)
    /\ \E fail \in Fails : \E res \in EmpRepo_FindAll(fail) :
          LET out == Handler_List(res)
          IN Finish(r, Caused(res.err,
                              Answer("EmpList", BadId, out.status, out.body)))
    /\ UNCHANGED <<impl, deptMu, empMu, inFlight,
                   departments, employees, nextDept, nextEmp, call>>

EmpUpdateFind(r) ==
    /\ Idle(r)
    /\ \E id \in IdArgs(EmpIds), fail \in Fails :
          LET res == EmpRepo_FindByID(id, fail)
          IN IF res.err # Nil
             THEN Finish(r, Caused(res.err,
                                   Response("EmpUpdate", id, 404,
                                            "Employee not found")))
             ELSE Goto(r, "EmpUpdate:validate",
                       [op |-> "EmpUpdate", id |-> id, existing |-> res.val.ID,
                        was |-> res.val])
    /\ UNCHANGED <<impl, deptMu, empMu, inFlight,
                   departments, employees, nextDept, nextEmp, call>>

\* an Update that does not look the department up
EmpUpdateValidate_NoGate(r) ==
    /\ At(r, "EmpUpdate:validate")
    /\ \E name \in NameArgs, email \in EmailArgs,
          deptID \in IdArgs(DeptIds) :
          IF ~(BindName(name) /\ BindEmail(email))
          THEN Finish(r, Response("EmpUpdate", req[r].id, 400, "bind"))
          ELSE Goto(r, "EmpUpdate:update",
                    [op |-> "EmpUpdate", id |-> req[r].id, assigned |-> FALSE,
                     existing |-> Employee(req[r].existing, name, email, deptID),
                     was |-> req[r].was])
    /\ UNCHANGED <<impl, deptMu, empMu, inFlight,
                   departments, employees, nextDept, nextEmp, call>>

\* Update from the bind to the department check
EmpUpdateValidate(r) ==
    /\ At(r, "EmpUpdate:validate")
    /\ \E name \in NameArgs, email \in EmailArgs,
          deptID \in IdArgs(DeptIds), fail \in Fails :
          IF ~(BindName(name) /\ BindEmail(email))
          THEN Finish(r, Response("EmpUpdate", req[r].id, 400, "bind"))
          ELSE IF DeptRepo_FindByID(deptID, fail).err # Nil
          THEN Finish(r, [Caused(DeptRepo_FindByID(deptID, fail).err,
                                 Response("EmpUpdate", req[r].id, 400,
                                          "Invalid department ID"))
                             EXCEPT !.dept = deptID])
          ELSE Goto(r, "EmpUpdate:update",
                    [op |-> "EmpUpdate", id |-> req[r].id, assigned |-> FALSE,
                     existing |-> Employee(req[r].existing, name, email, deptID),
                     was |-> req[r].was])
    /\ UNCHANGED <<impl, deptMu, empMu, inFlight,
                   departments, employees, nextDept, nextEmp, call>>

\* existingEmp.Name, .Email, .DepartmentID = ...: in the in-memory store
\* existingEmp is the pointer the map holds, and the three assignments
\* change the stored record before Update is called
EmpUpdateAssign(r) ==
    /\ At(r, "EmpUpdate:update")
    /\ impl = "memory"
    /\ ~req[r].assigned
    /\ LET e == req[r].existing
       IN employees' = IF e.ID \in DOMAIN employees
                       THEN [employees EXCEPT ![e.ID] = e]
                       ELSE employees
    /\ Goto(r, "EmpUpdate:update", [req[r] EXCEPT !.assigned = TRUE])
    /\ UNCHANGED <<impl, deptMu, empMu, inFlight,
                   departments, nextDept, nextEmp, call>>

EmpUpdateUpdate(r) ==
    /\ At(r, "EmpUpdate:update")
    /\ impl = "memory" => req[r].assigned
    /\ \E fail \in Fails :
          LET res == EmpRepo_Update(req[r].existing, fail)
          IN /\ Commit(res)
             /\ Finish(r, IF res.err # Nil
                          THEN Caused(res.err,
                                      Response("EmpUpdate", req[r].id, 500,
                                               "Failed to update employee"))
                          ELSE [Answer("EmpUpdate", req[r].id, 200,
                                         req[r].existing)
                                   EXCEPT !.was = req[r].was])
    /\ UNCHANGED <<impl, deptMu, empMu, inFlight, nextDept, nextEmp, call>>

EmpDeleteFind(r) ==
    /\ Idle(r)
    /\ \E id \in IdArgs(EmpIds), fail \in Fails :
          LET res == EmpRepo_FindByID(id, fail)
          IN IF res.err # Nil
             THEN Finish(r, Caused(res.err,
                                   Response("EmpDelete", id, 404,
                                            "Employee not found")))
             ELSE Goto(r, "EmpDelete:delete", [op |-> "EmpDelete", id |-> id])
    /\ UNCHANGED <<impl, deptMu, empMu, inFlight,
                   departments, employees, nextDept, nextEmp, call>>

EmpDeleteDelete(r) ==
    /\ At(r, "EmpDelete:delete")
    /\ \E fail \in Fails :
          LET res == EmpRepo_Delete(req[r].id, fail)
          IN /\ Commit(res)
             /\ Finish(r, Caused(res.err,
                              Response("EmpDelete", req[r].id,
                                       IF res.err # Nil THEN 500 ELSE 204,
                                       IF res.err # Nil
                                       THEN "Failed to delete employee"
                                       ELSE "No Content")))
    /\ UNCHANGED <<impl, deptMu, empMu, inFlight, nextDept, nextEmp, call>>

\* the client has received the response
Respond ==
    /\ last # None
    /\ last' = None
    /\ UNCHANGED <<impl, deptMu, empMu, inFlight,
                   departments, employees, nextDept, nextEmp, pc, req, call>>

Handler(r) ==
    \/ DeptCreate(r)
    \/ DeptGet(r)
    \/ DeptList(r)
    \/ DeptUpdateFind(r)
    \/ DeptUpdateBind(r)
    \/ DeptUpdateUpdate(r)
    \/ DeptDeleteVerify(r)
    \/ DeptDeleteEnumerate(r)
    \/ DeptDeleteCascade(r)
    \/ DeptDeleteDelete(r)
    \/ EmpCreateValidate(r)
    \/ EmpCreateSave(r)
    \/ EmpGet(r)
    \/ EmpList(r)
    \/ EmpUpdateFind(r)
    \/ EmpUpdateValidate(r)
    \/ EmpUpdateAssign(r)
    \/ EmpUpdateUpdate(r)
    \/ EmpDeleteFind(r)
    \/ EmpDeleteDelete(r)

Next == (\E r \in Procs : Handler(r)) \/ Respond

Spec == Init /\ [][Next]_vars

\* The same handlers over the in-memory store with the requests of all
\* the clients under way at once, each in its own goroutine.
InitConc ==
    /\ impl = "memory"
    /\ departments = <<>>
    /\ employees = <<>>
    /\ nextDept = 0
    /\ nextEmp = 0
    /\ pc = [p \in Procs |-> "idle"]
    /\ req = [p \in Procs |-> NoReq]
    /\ call = NoCall
    /\ last = None
    /\ deptMu = Unlocked
    /\ empMu = Unlocked
    /\ inFlight = Cardinality(Procs)

SpecConc == InitConc /\ [][Next]_vars

\* ------------------------------------------------------------------------
\* Properties of the repository interfaces (SpecRepo)
\* ------------------------------------------------------------------------
IsCall(repo, op) == call.repo = repo /\ call.op = op

Canonical(id) == id > 0

\* what FindByID returns for the record that has just been saved
FoundAfterSave ==
    IF call.repo = "dept" THEN DeptRepo_FindByID(call.arg.ID, FALSE)
    ELSE EmpRepo_FindByID(call.arg.ID, FALSE)

SameAsSaved(found) ==
    /\ found.err = Nil
    /\ found.val.ID = call.arg.ID
    /\ found.val.Name = call.arg.Name
    /\ call.repo = "emp" =>
          /\ found.val.Email = call.arg.Email
          /\ found.val.DepartmentID = call.arg.DepartmentID

\* C5 as stated: after a successful Save(d), FindByID(d.id) succeeds and
\* returns a record equal to d in id and name (an Employee also in email
\* and department_id), whatever well-formed identifiers d carries.
C5_RoundTripAnyId ==
    (call.op = "Save" /\ call.err = Nil) => SameAsSaved(FoundAfterSave)

\* C5 amended: after a successful Save(d) whose identifiers (id, and for an
\* Employee department_id) are canonically spelled UUIDs, FindByID(d.id)
\* succeeds and returns a record equal to d in id and name (an Employee
\* also in email and department_id); for any other accepted spelling the
\* record is found as well and has the same name (and email).
C5_RoundTrip ==
    (call.op = "Save" /\ call.err = Nil) =>
        LET found == FoundAfterSave
            canonical == /\ Canonical(call.arg.ID)
                         /\ call.repo = "emp" => Canonical(call.arg.DepartmentID)
        IN /\ found.err = Nil
           /\ found.val.Name = call.arg.Name
           /\ call.repo = "emp" => found.val.Email = call.arg.Email
           /\ canonical => SameAsSaved(found)

C5_Witness ==
    /\ IsCall("emp", "Save")
    /\ call.err = Nil
    /\ Canonical(call.arg.ID)
    /\ Canonical(call.arg.DepartmentID)
    /\ impl = "ent"

\* the key under which the store holds the row a caller names by id: the
\* string itself in the maps, the UUID it spells in the database
Key(id) == IF impl = "memory" THEN id ELSE ParseUUID(id)

\* the identifier string a stored row carries for the identifier saved
StoredId(id) == IF impl = "memory" THEN id ELSE UUIDString(ParseUUID(id))

Collection(repo) == IF repo = "dept" THEN departments ELSE employees

FoundById(repo, id) ==
    IF repo = "dept" THEN DeptRepo_FindByID(id, FALSE)
    ELSE EmpRepo_FindByID(id, FALSE)

\* the step is a call of op that is not a repetition
FirstCall(op) == call'.op = op /\ call'.prev = "first call" /\ call' # call

\* C6: for both repositories and a well-formed id: a Delete(id) of a row
\* that exists succeeds (unless the store rejects it for a constraint), a
\* Delete(id) of a row that does not exist fails with NotFound; a second
\* Delete(id) right after a first that succeeded or failed with NotFound
\* fails with NotFound; after a successful Delete(id), FindByID(id) fails
\* with NotFound.
C6_DeleteStep ==
    (FirstCall("Delete") /\ call'.arg # BadId) =>
        LET present == Key(call'.arg) \in DOMAIN Collection(call'.repo)
        IN /\ (present /\ call'.err # ErrConstraint) => call'.err = Nil
           /\ ~present => call'.err = ErrNotFound

C6_DeleteState ==
    (call.op = "Delete" /\ call.arg # BadId) =>
        /\ call.prev \in {Nil, ErrNotFound} => call.err = ErrNotFound
        /\ call.err = Nil => FoundById(call.repo, call.arg).err = ErrNotFound

C7_UpdateStep ==
    (FirstCall("Update") /\ call'.arg.ID # BadId) =>
        LET repo == call'.repo
            x == call'.arg
            k == Key(x.ID)
            before == Collection(repo)
            after == IF repo = "dept" THEN departments' ELSE employees'
        IN /\ DOMAIN after = DOMAIN before
           /\ repo = "dept" => employees' = employees
           /\ repo = "emp" => departments' = departments
           /\ k \notin DOMAIN before =>
                 call'.err = ErrNotFound /\ after = before
           /\ call'.err # Nil => after = before
           /\ (k \in DOMAIN before /\ call'.err = Nil) =>
                 /\ \A j \in DOMAIN before \ {k} : after[j] = before[j]
                 /\ after[k].ID = before[k].ID
                 /\ after[k].Name = x.Name
                 /\ repo = "emp" =>
                       /\ after[k].Email = x.Email
                       /\ after[k].DepartmentID = StoredId(x.DepartmentID)

C8_FindByDepartmentID ==
    (IsCall("emp", "FindByDepartmentID") /\ call.arg # BadId) =>
        LET members == {employees[k] : k \in
                           {j \in DOMAIN employees :
                               employees[j].DepartmentID = StoredId(call.arg)}}
        IN /\ call.err = Nil
           /\ Range(call.val.rows) = members
           /\ Len(call.val.rows) = Cardinality(members)

C8_Witness ==
    /\ IsCall("emp", "FindByDepartmentID")
    /\ call.err = Nil
    /\ Len(call.val.rows) = 1
    /\ Cardinality(DOMAIN employees) = 2

\* C9: FindAll() returns every stored row exactly once, as a non-nil slice
\* (an empty one on an empty store), and the list endpoint built on it
\* answers with these rows, [] when there is none, never null.
C9_FindAll ==
    (call.op = "FindAll" /\ call.err = Nil) =>
        LET stored == {Collection(call.repo)[k] :
                          k \in DOMAIN Collection(call.repo)}
            r == [err |-> call.err, val |-> call.val]
        IN /\ ~call.val.isNil
           /\ Range(call.val.rows) = stored
           /\ Len(call.val.rows) = Cardinality(stored)
           /\ Handler_List(r).status = 200
           /\ Handler_List(r).body = call.val.rows

C9_Witness ==
    /\ call.op = "FindAll"
    /\ call.err = Nil
    /\ call.val.rows = <<>>
    /\ impl = "postgres"

IsListing == call.op \in {"FindAll", "FindByDepartmentID"} /\ call.err = Nil

\* C10 as stated: in every implementation the sequences returned by
\* FindAll() and FindByDepartmentID() are sorted by name ascending.
C10_SortedEverywhere == IsListing => SortedByName(call.val.rows)

\* C10 amended: the sequences returned by FindAll() and
\* FindByDepartmentID() of the PostgreSQL repositories (ORDER BY name) are
\* sorted by name ascending.
C10_SortedPostgres ==
    (IsListing /\ impl = "postgres") => SortedByName(call.val.rows)

C10_Witness ==
    /\ IsListing
    /\ impl = "postgres"
    /\ Len(call.val.rows) = 2
    /\ call.val.rows[1].Name < call.val.rows[2].Name
    /\ call.val.rows[1].ID > call.val.rows[2].ID

\* ------------------------------------------------------------------------
\* Properties of the REST handlers (Spec)
\* ------------------------------------------------------------------------
\* the response just sent is that of request op, with this status
Sent(op, status) == last # None /\ last.op = op /\ last.status = status

Deleted(status) == Sent("DeptDelete", status)

\* C1: when DELETE /departments/:id has answered 204 and no other request
\* took a step meanwhile, FindByDepartmentID(id) returns no row,
\* FindByID(id) fails with ErrNotFound (so that the same request, repeated,
\* is answered 404 by its first step), and no stored employee references
\* the department.
C1_CascadeComplete ==
    (Deleted(204) /\ last.solo) =>
        /\ \A res \in EmpRepo_FindByDepartmentID(last.id, FALSE) :
              res.err = Nil /\ res.val.rows = <<>>
        /\ DeptRepo_FindByID(last.id, FALSE).err = ErrNotFound
        /\ \A k \in DOMAIN employees :
              Key(employees[k].DepartmentID) # Key(last.id)

\* a cascade over at least one employee has answered 204, and another
\* department with an employee of its own is still stored
C1_Witness ==
    /\ Deleted(204)
    /\ last.solo
    /\ Len(last.cascade) >= 1
    /\ departments # <<>>
    /\ employees # <<>>

\* the response sent by the step, if it sends one
SendsNow(op) == last = None /\ last' # None /\ last'.op = op

C2_GateStep ==
    /\ \A r \in Procs :
          (pc[r] = "idle" /\ pc'[r] = "EmpCreate:save") =>
              DeptRepo_FindByID(req'[r].emp.DepartmentID, FALSE).err = Nil
    /\ (SendsNow("EmpCreate") /\ last'.msg = "Invalid department ID") =>
          /\ last'.status = 400
          /\ UNCHANGED <<departments, employees, nextEmp>>
    /\ ((\A r \in Procs : pc[r] # "EmpCreate:save") /\ SendsNow("EmpCreate")) =>
          UNCHANGED <<employees, nextEmp>>

\* C2: POST /employees goes on to EmployeeRepo.Save only when
\* DepartmentRepo.FindByID(department_id) has found the department; when
\* that lookup fails the request is answered 400 "Invalid department ID"
\* in the same step, Save is not called and the employees are unchanged.
C2_Gate == [][C2_GateStep]_vars

\* a create naming a well-formed id of no stored department has been
\* refused while other departments are stored
C2_Witness ==
    /\ Sent("EmpCreate", 400)
    /\ last.msg = "Invalid department ID"
    /\ last.dept # BadId
    /\ DeptRepo_FindByID(last.dept, FALSE).err = ErrNotFound
    /\ departments # <<>>

C3_VerifyStep ==
    /\ \A r \in Procs :
          (pc[r] = "idle" /\ pc'[r] = "DeptDelete:enumerate") =>
              DeptRepo_FindByID(req'[r].id, FALSE).err = Nil
    /\ (SendsNow("DeptDelete") /\ last'.status = 404) =>
          /\ \A r \in Procs : pc[r] = "idle"
          /\ UNCHANGED <<departments, employees>>
    /\ ((\A r \in Procs : pc[r] = "idle") /\ SendsNow("DeptDelete")) =>
          last'.status = 404

\* C3: DELETE /departments/:id goes past its first step only when
\* FindByID(id) has found the department; otherwise that step answers 404,
\* it is the request's only step (no FindByDepartmentID, no Delete of
\* either repository), and both collections are unchanged.
C3_Verify == [][C3_VerifyStep]_vars

\* a delete of a well-formed id of no stored department has been answered
\* 404 while departments and employees are stored
C3_Witness ==
    /\ Deleted(404)
    /\ last.id # BadId
    /\ DeptRepo_FindByID(last.id, FALSE).err = ErrNotFound
    /\ departments # <<>>
    /\ employees # <<>>

\* C4: in every reachable state no two stored employees share an email (a
\* second create with an email already stored stores no row).
C4_UniqueEmail ==
    \A j, k \in DOMAIN employees :
        j # k => employees[j].Email # employees[k].Email

\* the in-memory repository has stored, and the handler has answered 201
\* for, an employee whose email another stored employee has
C4_Witness ==
    /\ impl = "memory"
    /\ Sent("EmpCreate", 201)
    /\ \E k \in DOMAIN employees :
          /\ k # last.id
          /\ employees[k].Email = last.body.Email

\* the rows of a successful FindByDepartmentID result that have this id
RowsWithId(res, id) == {i \in 1..Len(res.val.rows) : res.val.rows[i].ID = id}

\* C11: when PUT /employees/:id has answered 200 with department_id = B,
\* FindByDepartmentID(B) holds the employee exactly once,
\* FindByDepartmentID(A) of every other department A does not hold it, and
\* the stored employee has the id it had before the request.
C11_Moved ==
    Sent("EmpUpdate", 200) =>
        /\ \A res \in EmpRepo_FindByDepartmentID(last.body.DepartmentID, FALSE) :
              res.err = Nil /\ Cardinality(RowsWithId(res, last.was.ID)) = 1
        /\ \A A \in DeptIds :
              Key(A) # Key(last.body.DepartmentID) =>
                  \A res \in EmpRepo_FindByDepartmentID(A, FALSE) :
                      res.err = Nil /\ RowsWithId(res, last.was.ID) = {}
        /\ EmpRepo_FindByID(last.id, FALSE).err = Nil
        /\ EmpRepo_FindByID(last.id, FALSE).val.ID = last.was.ID

\* an employee found in department A has been updated to another
\* department B, with 200, and A is still stored
C11_Witness ==
    /\ Sent("EmpUpdate", 200)
    /\ Key(last.was.DepartmentID) # Key(last.body.DepartmentID)
    /\ DeptRepo_FindByID(last.was.DepartmentID, FALSE).err = Nil

C12_GateStep ==
    \A r \in Procs :
        /\ (pc[r] = "EmpUpdate:validate" /\ pc'[r] = "EmpUpdate:update") =>
              DeptRepo_FindByID(req'[r].existing.DepartmentID, FALSE).err = Nil
        /\ (pc[r] = "EmpUpdate:update" /\ pc'[r] = "idle") =>
              last'.msg # "Invalid department ID"
        /\ (/\ pc[r] = "EmpUpdate:validate"
            /\ SendsNow("EmpUpdate")
            /\ last'.msg = "Invalid department ID") =>
              /\ last'.status = 400
              /\ UNCHANGED <<departments, employees>>
              /\ EmpRepo_FindByID(req[r].id, FALSE).err = Nil
              /\ EmpRepo_FindByID(req[r].id, FALSE).val = req[r].was

\* C12: PUT /employees/:id goes on to the assignments and to
\* EmployeeRepo.Update only when DepartmentRepo.FindByID(department_id) has
\* found the department; when that lookup fails the request is answered 400
\* "Invalid department ID" in the same step, Update is not called, and the
\* stored employee still has the name, email and department_id that
\* FindByID(id) returned at the start of the request.
C12_Gate == [][C12_GateStep]_vars

\* an update of a stored employee naming a well-formed id of no stored
\* department has been refused while other departments are stored
C12_Witness ==
    /\ Sent("EmpUpdate", 400)
    /\ last.msg = "Invalid department ID"
    /\ last.dept # BadId
    /\ DeptRepo_FindByID(last.dept, FALSE).err = ErrNotFound
    /\ EmpRepo_FindByID(last.id, FALSE).err = Nil

\* the step is a successful DepartmentRepo.Delete
DeptDeleted == FirstCall("Delete") /\ call'.repo = "dept" /\ call'.err = Nil

\* the employees whose department_id is the department a caller names by id
EmployeesOf(id) ==
    {k \in DOMAIN employees : Key(employees[k].DepartmentID) = Key(id)}

\* C13 as stated: a successful DepartmentRepo.Delete(id) removes exactly
\* the department row with that id and leaves every employee row (those of
\* the department included) and every other department row unchanged.
C13_NoCascade ==
    [][DeptDeleted =>
          /\ departments' = Remove(departments, Key(call'.arg))
          /\ employees' = employees]_vars

\* C13 amended: a successful DepartmentRepo.Delete(id) removes the
\* department row with that id and leaves every other department row
\* unchanged; the in-memory repository leaves every employee row unchanged,
\* those of the department included; the PostgreSQL repository removes with
\* the department exactly the employee rows whose department_id is id
\* (ON DELETE CASCADE) and leaves the others unchanged; the Ent repository
\* succeeds only when no employee row has that department_id, and leaves
\* every employee row unchanged.
C13_DeleteFrame ==
    [][DeptDeleted =>
          /\ departments' = Remove(departments, Key(call'.arg))
          /\ impl = "memory" => employees' = employees
          /\ impl = "postgres" =>
                employees' = [k \in DOMAIN employees \ EmployeesOf(call'.arg)
                                 |-> employees[k]]
          /\ impl = "ent" =>
                EmployeesOf(call'.arg) = {} /\ employees' = employees]_vars

\* the in-memory DepartmentRepo.Delete has removed a department, another
\* department is stored, and an employee of the removed department is
\* still stored
C13_Witness ==
    /\ impl = "memory"
    /\ IsCall("dept", "Delete")
    /\ call.err = Nil
    /\ EmployeesOf(call.arg) # {}
    /\ departments # <<>>

C14_EnumerateStep ==
    \A r \in Procs :
        /\ (pc[r] = "DeptDelete:enumerate" /\ pc'[r] = "DeptDelete:cascade") =>
              /\ Range(req'[r].cascade) = EmployeesOf(req[r].id)
              /\ Len(req'[r].cascade) = Cardinality(EmployeesOf(req[r].id))
        /\ (pc[r] = "DeptDelete:enumerate" /\ pc'[r] = "idle") =>
              /\ SendsNow("DeptDelete")
              /\ last'.status = 500
              /\ last'.msg = "Failed to check department employees"
              /\ UNCHANGED <<departments, employees>>
        /\ (pc[r] = "DeptDelete:cascade" /\ pc'[r] = "idle") =>
              last'.msg # "Failed to check department employees"

\* C14: in DELETE /departments/:id the handler goes on from
\* FindByDepartmentID to the deletes only with the list of the department's
\* employees that a successful lookup returns; when the lookup fails
\* (I/O failure) the request ends in that step with 500 "Failed to check
\* department employees", no Delete of either repository is called, and
\* both collections are unchanged.
C14_Enumerate == [][C14_EnumerateStep]_vars

\* the enumeration has failed for a department that has employees; the
\* department and its employees are still stored
C14_Witness ==
    /\ Deleted(500)
    /\ last.msg = "Failed to check department employees"
    /\ EmployeesOf(last.id) # {}
    /\ DeptRepo_FindByID(last.id, FALSE).err = Nil

\* one turn of the loop of the cascade: whatever EmployeeRepo.Delete
\* returns the handler goes on to the next enumerated employee, and it
\* calls DepartmentRepo.Delete only when the list is exhausted
C15_LoopStep ==
    \A r \in Procs :
        /\ (pc[r] = "DeptDelete:cascade" /\ req[r].employees # <<>>
                /\ req'[r] # req[r]) =>
              LET e == Head(req[r].employees)
              IN /\ pc'[r] = "DeptDelete:cascade"
                 /\ req'[r].employees = Tail(req[r].employees)
                 /\ \/ req'[r].failed = Append(req[r].failed, e)
                          /\ employees' = employees
                    \/ req'[r].failed = req[r].failed
                          /\ employees' = Remove(employees, e)
                 /\ departments' = departments
        /\ (pc[r] = "DeptDelete:cascade" /\ pc'[r] = "idle") =>
              /\ req[r].employees = <<>>
              /\ SendsNow("DeptDelete")
              /\ last'.status \in {204, 500}
              /\ last'.status = 204 =>
                    Key(req[r].id) \notin DOMAIN departments'

\* the employees for which EmployeeRepo.Delete failed in the request just
\* answered
FailedDeletes == Range(last.failed)

C16_ParentStep ==
    \A r \in Procs :
        (pc[r] = "DeptDelete:cascade" /\ pc'[r] = "idle") =>
            LET k == Key(req[r].id)
                failed == k \notin DOMAIN departments
                             \/ k \in DOMAIN departments'
            IN /\ failed =>
                     /\ last'.status = 500
                     /\ last'.msg = "Failed to delete department"
               /\ last'.status = 204 => ~failed

\* C16: when DepartmentRepo.Delete(d) fails at the end of DELETE
\* /departments/:id, the request is answered 500 "Failed to delete
\* department"; 204 is answered only when the call has removed the row.
C16_ParentFailure == [][C16_ParentStep]_vars

\* the department delete of a cascade has failed: 500, and the department
\* is still stored
C16_Witness ==
    /\ Deleted(500)
    /\ last.msg = "Failed to delete department"
    /\ DeptRepo_FindByID(last.id, FALSE).err = Nil

\* the positions of a department delete that has passed Verify
InCascade == {"DeptDelete:enumerate", "DeptDelete:cascade"}

\* s is what is left of sequence t after its first Len(t) - Len(s) elements
IsSuffix(s, t) ==
    /\ Len(s) <= Len(t)
    /\ \A i \in 1..Len(s) : s[i] = t[Len(t) - Len(s) + i]

C17_OrderStep ==
    \A r \in Procs :
        /\ (pc'[r] = "DeptDelete:enumerate" /\ pc[r] # pc'[r]) =>
              pc[r] = "idle"
        /\ (pc'[r] = "DeptDelete:cascade" /\ pc[r] # pc'[r]) =>
              /\ pc[r] = "DeptDelete:enumerate"
              /\ req'[r].employees = req'[r].cascade
              /\ UNCHANGED <<departments, employees>>
        /\ (pc[r] = "DeptDelete:cascade" /\ pc'[r] = pc[r]
                /\ req'[r] # req[r]) =>
              /\ req[r].employees # <<>>
              /\ req'[r].employees = Tail(req[r].employees)
              /\ req'[r].cascade = req[r].cascade
              /\ employees' \in {employees,
                                 Remove(employees, Head(req[r].employees))}
              /\ departments' = departments
        /\ (pc[r] \in InCascade /\ departments' # departments) =>
              /\ pc[r] = "DeptDelete:cascade"
              /\ req[r].employees = <<>>
              /\ pc'[r] = "idle"
              /\ employees' \in {employees,
                                 [k \in DOMAIN employees \ EmployeesOf(req[r].id)
                                     |-> employees[k]]}

C17_OrderState ==
    \A r \in Procs :
        /\ pc[r] = "DeptDelete:cascade" =>
              IsSuffix(req[r].employees, req[r].cascade)
        /\ (pc[r] = "DeptDelete:enumerate"
               \/ (pc[r] = "DeptDelete:cascade" /\ req[r].employees # <<>>)) =>
              Key(req[r].id) \in DOMAIN departments

\* C17: within one DELETE /departments/:id the steps are FindByID, then
\* FindByDepartmentID, then one EmployeeRepo.Delete per enumerated employee
\* in the order of the enumeration, then DepartmentRepo.Delete; the
\* department row is stored as long as an enumerated employee is left for
\* which no delete has been attempted.
C17_Order == [][C17_OrderStep]_vars /\ []C17_OrderState

\* two employees were enumerated, a delete has been attempted for both, and
\* the department is still stored: DepartmentRepo.Delete comes next
C17_Witness ==
    \E r \in Procs :
        /\ pc[r] = "DeptDelete:cascade"
        /\ Len(req[r].cascade) = 2
        /\ req[r].employees = <<>>
        /\ Key(req[r].id) \in DOMAIN departments

\* the requests C18 is about, and the three kinds of failure
Targeted ==
    {"DeptGet", "DeptCreate", "DeptUpdate", "DeptDelete",
     "EmpGet", "EmpCreate", "EmpUpdate", "EmpDelete"}

\* the response just sent reports a target that was not found
SaysNotFound == last.status = 404

\* the response just sent reports invalid input
SaysInvalid == last.status = 400

\* the request just answered ended on a repository call that failed on I/O
StoreOutage == last.err = ErrIO

\* C18: for every get/create/update/delete request a store outage is
\* reported by an outcome that is neither the not-found outcome nor the
\* invalid-input outcome, and the not-found outcome is sent only for a
\* target that the repository reported as not found.
C18_Distinguishable ==
    (last # None /\ last.op \in Targeted) =>
        /\ StoreOutage => ~SaysNotFound /\ ~SaysInvalid
        /\ SaysNotFound => last.err = ErrNotFound

\* GET /employees/:id has answered 404 "Employee not found" for a stored
\* employee because FindByID failed on I/O
C18_Witness ==
    /\ Sent("EmpGet", 404)
    /\ StoreOutage
    /\ EmpRepo_FindByID(last.id, FALSE).err = Nil

\* the four kinds of failure
Kinds == {"NotFound", "InvalidInput", "Conflict", "StoreUnavailable"}

\* C19: every failure a repository operation returns is of one of the four
\* kinds NotFound, InvalidInput, Conflict and StoreUnavailable (no error of
\* the driver is returned).
C19_ClosedTaxonomy == call.err # Nil => ErrorKind(call.err) \in Kinds

\* with employees stored, EmployeeRepo.Save has failed on a constraint of
\* the database (primary key, unique email or foreign key)
C19_Witness ==
    /\ IsCall("emp", "Save")
    /\ call.err = ErrConstraint
    /\ employees # <<>>

\* a repository call made for the request just answered failed on I/O
SomeCallFailedOnIO == last.err = ErrIO \/ last.io

\* the statuses that report success
Success == {200, 201, 204}

\* C20: a request in which a repository call failed on I/O is not answered
\* with a success.
C20_NotSwallowed ==
    (last # None /\ SomeCallFailedOnIO) => last.status \notin Success

\* DELETE /departments/:id has answered 204 although the delete of an
\* enumerated employee failed on I/O
C20_Witness ==
    /\ Deleted(204)
    /\ last.io
    /\ last.failed # <<>>

\* ========================================================================
\* The in-memory store at the granularity of its locks.  A goroutine makes
\* up to MaxCalls requests: a call of a repository method, or the
\* department handler's Update, which is FindByID, an assignment through
\* the pointer FindByID returned, and Update.  A repository method takes
\* the lock of its collection (Lock or RLock), defers the unlock, reads or
\* changes the map, and returns through the deferred unlock.
\* ========================================================================
Goroutines == {"g1", "g2", "g3"}

MaxCalls == 1

\* the identifiers and names the goroutines use
MuDeptIds == {1}
MuEmpIds == {1}
MuEmail == "a@x.io"

\* methods that take the lock with RLock
RLocking == {"FindByID", "FindAll", "FindByDepartmentID"}

MuOf(repo) == IF repo = "dept" THEN deptMu ELSE empMu

Holds(g, mu) == mu.writer = g \/ g \in mu.readers

\* goroutines blocked in Lock() behind the readers that hold the lock: a
\* blocked Lock() keeps new readers and other writers out
Waiting(repo) ==
    {g \in Goroutines : pc[g] = "wait" /\ req[g].repo = repo}

SetMu(repo, mu) ==
    IF repo = "dept" THEN deptMu' = mu /\ UNCHANGED empMu
    ELSE empMu' = mu /\ UNCHANGED deptMu

InMemoryCall(repo, op, arg) == [repo |-> repo, op |-> op, arg |-> arg]

\* the calls a goroutine may make
InMemoryCalls ==
    {InMemoryCall("dept", "Save", Department(id, name)) :
        id \in MuDeptIds, name \in Names}
    \cup {InMemoryCall("dept", "Update", Department(id, name)) :
            id \in MuDeptIds, name \in Names}
    \cup {InMemoryCall("dept", op, id) :
            op \in {"FindByID", "Delete"}, id \in MuDeptIds}
    \cup {InMemoryCall("dept", "FindAll", None)}
    \cup {InMemoryCall("emp", "Save", Employee(id, name, MuEmail, deptID)) :
            id \in MuEmpIds, name \in Names, deptID \in MuDeptIds}
    \cup {InMemoryCall("emp", "Update", Employee(id, name, MuEmail, deptID)) :
            id \in MuEmpIds, name \in Names, deptID \in MuDeptIds}
    \cup {InMemoryCall("emp", op, id) :
            op \in {"FindByID", "Delete"}, id \in MuEmpIds}
    \cup {InMemoryCall("emp", "FindByDepartmentID", id) : id \in MuDeptIds}
    \cup {InMemoryCall("emp", "FindAll", None)}

\* the body of a method, between taking the lock and the deferred unlock
InMemoryBody(repo, op, arg) ==
    CASE repo = "dept" /\ op = "Save" -> {InMemoryDepartmentRepo_Save(arg)}
      [] repo = "dept" /\ op = "FindByID" ->
            {InMemoryDepartmentRepo_FindByID(arg)}
      [] repo = "dept" /\ op = "FindAll" -> InMemoryDepartmentRepo_FindAll
      [] repo = "dept" /\ op = "Update" ->
            {InMemoryDepartmentRepo_Update(arg)}
      [] repo = "dept" /\ op = "Delete" ->
            {InMemoryDepartmentRepo_Delete(arg)}
      [] repo = "emp" /\ op = "Save" -> {InMemoryEmployeeRepo_Save(arg)}
      [] repo = "emp" /\ op = "FindByID" ->
            {InMemoryEmployeeRepo_FindByID(arg)}
      [] repo = "emp" /\ op = "FindAll" -> InMemoryEmployeeRepo_FindAll
      [] repo = "emp" /\ op = "Update" -> {InMemoryEmployeeRepo_Update(arg)}
      [] repo = "emp" /\ op = "Delete" -> {InMemoryEmployeeRepo_Delete(arg)}
      [] repo = "emp" /\ op = "FindByDepartmentID" ->
            InMemoryEmployeeRepo_FindByDepartmentID(arg)

NoWork(left) == [op |-> "none", left |-> left]

Work(c, left, handler) ==
    [repo |-> c.repo, op |-> c.op, arg |-> c.arg, left |-> left,
     handler |-> handler, err |-> Nil, val |-> None]

InitLock ==
    /\ impl = "memory"
    /\ departments = <<>>
    /\ employees = <<>>
    /\ nextDept = 0
    /\ nextEmp = 0
    /\ pc = [g \in Goroutines |-> "idle"]
    /\ req = [g \in Goroutines |-> NoWork(MaxCalls)]
    /\ call = NoCall
    /\ last = None
    /\ deptMu = Unlocked
    /\ empMu = Unlocked
    /\ inFlight = Cardinality(Goroutines)

\* a goroutine calls a repository method
GoCall(g) ==
    /\ pc[g] = "idle"
    /\ req[g].left > 0
    /\ \E c \in InMemoryCalls :
          req' = [req EXCEPT ![g] = Work(c, req[g].left - 1, "none")]
    /\ pc' = [pc EXCEPT ![g] = "lock"]
    /\ UNCHANGED <<impl, departments, employees, nextDept, nextEmp, call,
                   last, deptMu, empMu, inFlight>>

\* department.Handler.Update is started: existingDept, err := FindByID(id)
GoUpdate(g) ==
    /\ pc[g] = "idle"
    /\ req[g].left > 0
    /\ \E id \in MuDeptIds :
          req' = [req EXCEPT ![g] =
                     Work(InMemoryCall("dept", "FindByID", id),
                          req[g].left - 1, "Update:find")]
    /\ pc' = [pc EXCEPT ![g] = "lock"]
    /\ UNCHANGED <<impl, departments, employees, nextDept, nextEmp, call,
                   last, deptMu, empMu, inFlight>>

\* RLock(): passes unless a writer holds the lock or waits for it
RWMutex_RLock(g) ==
    /\ pc[g] = "lock"
    /\ req[g].op \in RLocking
    /\ LET mu == MuOf(req[g].repo)
       IN /\ mu.writer = "none"
          /\ Waiting(req[g].repo) = {}
          /\ SetMu(req[g].repo, [mu EXCEPT !.readers = @ \cup {g}])
    /\ pc' = [pc EXCEPT ![g] = "locked"]
    /\ UNCHANGED <<impl, departments, employees, nextDept, nextEmp, call,
                   last, req, inFlight>>

\* Lock(): excludes other writers, then takes the lock if no reader holds
\* it and waits for the readers to leave otherwise
RWMutex_Lock(g) ==
    /\ pc[g] = "lock"
    /\ req[g].op \notin RLocking
    /\ LET mu == MuOf(req[g].repo)
       IN /\ mu.writer = "none"
          /\ Waiting(req[g].repo) = {}
          /\ IF mu.readers = {}
             THEN /\ SetMu(req[g].repo, [mu EXCEPT !.writer = g])
                  /\ pc' = [pc EXCEPT ![g] = "locked"]
             ELSE /\ UNCHANGED <<deptMu, empMu>>
                  /\ pc' = [pc EXCEPT ![g] = "wait"]
    /\ UNCHANGED <<impl, departments, employees, nextDept, nextEmp, call,
                   last, req, inFlight>>

\* the last reader has left: the waiting writer takes the lock
RWMutex_LockWake(g) ==
    /\ pc[g] = "wait"
    /\ LET mu == MuOf(req[g].repo)
       IN /\ mu.readers = {}
          /\ SetMu(req[g].repo, [mu EXCEPT !.writer = g])
    /\ pc' = [pc EXCEPT ![g] = "locked"]
    /\ UNCHANGED <<impl, departments, employees, nextDept, nextEmp, call,
                   last, req, inFlight>>

\* the method's body runs under the lock
InMemoryRun(g) ==
    /\ pc[g] = "locked"
    /\ \E res \in InMemoryBody(req[g].repo, req[g].op, req[g].arg) :
          /\ Commit(res)
          /\ req' = [req EXCEPT ![g].err = res.err, ![g].val = res.val]
    /\ pc' = [pc EXCEPT ![g] = "unlock"]
    /\ UNCHANGED <<impl, nextDept, nextEmp, call, last, deptMu, empMu,
                   inFlight>>

\* a method that unlocks only where it returns nil
RWMutex_Unlock_OnSuccess(g, mu) ==
    IF req[g].err # Nil THEN mu
    ELSE [writer |-> IF mu.writer = g THEN "none" ELSE mu.writer,
          readers |-> mu.readers \ {g}]

\* defer Unlock() / defer RUnlock(): runs on every return path
RWMutex_Unlock(g, mu) ==
    [writer |-> IF mu.writer = g THEN "none" ELSE mu.writer,
     readers |-> mu.readers \ {g}]

\* the method returns.  The handler's FindByID is followed by its
\* assignment if the department was found; every other call ends the
\* goroutine's request.
InMemoryReturn(g) ==
    /\ pc[g] = "unlock"
    /\ SetMu(req[g].repo, RWMutex_Unlock(g, MuOf(req[g].repo)))
    /\ IF req[g].handler = "Update:find" /\ req[g].err = Nil
       THEN /\ pc' = [pc EXCEPT ![g] = "assign"]
            /\ req' = req
       ELSE /\ pc' = [pc EXCEPT ![g] = "idle"]
            /\ req' = [req EXCEPT ![g] = NoWork(req[g].left)]
    /\ UNCHANGED <<impl, departments, employees, nextDept, nextEmp, call,
                   last, inFlight>>

\* c.ShouldBindJSON, existingDept.Name = req.Name, then
\* h.repo.Update(existingDept) is called.  existingDept is the pointer the
\* map holds (or held, if the department has been deleted meanwhile).
HandlerAssign(g) ==
    /\ pc[g] = "assign"
    /\ \E name \in Names \cup {EmptyName} :
          LET k == req[g].val.ID
          IN IF ~BindName(name)
             THEN /\ pc' = [pc EXCEPT ![g] = "idle"]
                  /\ req' = [req EXCEPT ![g] = NoWork(req[g].left)]
                  /\ UNCHANGED departments
             ELSE /\ departments' =
                        IF k \in DOMAIN departments
                        THEN [departments EXCEPT ![k].Name = name]
                        ELSE departments
                  /\ req' = [req EXCEPT ![g] =
                                Work(InMemoryCall("dept", "Update",
                                                  Department(k, name)),
                                     req[g].left, "Update:update")]
                  /\ pc' = [pc EXCEPT ![g] = "lock"]
    /\ UNCHANGED <<impl, employees, nextDept, nextEmp, call, last, deptMu,
                   empMu, inFlight>>

\* a step of goroutine g inside a request
Run(g) ==
    \/ RWMutex_RLock(g)
    \/ RWMutex_Lock(g)
    \/ RWMutex_LockWake(g)
    \/ InMemoryRun(g)
    \/ InMemoryReturn(g)
    \/ HandlerAssign(g)

NextLock ==
    \/ \E g \in Goroutines : GoCall(g)
    \/ \E g \in Goroutines : GoUpdate(g)
    \/ \E g \in Goroutines : RWMutex_RLock(g)
    \/ \E g \in Goroutines : RWMutex_Lock(g)
    \/ \E g \in Goroutines : RWMutex_LockWake(g)
    \/ \E g \in Goroutines : InMemoryRun(g)
    \/ \E g \in Goroutines : InMemoryReturn(g)
    \/ \E g \in Goroutines : HandlerAssign(g)

\* every goroutine that can take a step inside a request is scheduled
\* again and again
SpecLock ==
    /\ InitLock
    /\ [][NextLock]_vars
    /\ \A g \in Goroutines : WF_vars(Run(g))

\* ------------------------------------------------------------------------
\* C21  Thread safety of the in-memory store: every read and every write
\* of a stored record happens while the goroutine that makes it holds the
\* lock of the record's collection (a write: the lock taken with Lock()),
\* and a goroutine holds a lock only while it is inside the body of a
\* repository method.
\* ------------------------------------------------------------------------
C21_AccessStep ==
    \A g \in Goroutines :
        pc'[g] # pc[g] =>
            /\ departments' # departments => deptMu.writer = g
            /\ employees' # employees => empMu.writer = g
            /\ pc[g] = "locked" => Holds(g, MuOf(req[g].repo))

C21_HeldInBody ==
    \A g \in Goroutines :
        Holds(g, deptMu) \/ Holds(g, empMu) => pc[g] \in {"locked", "unlock"}

C21_ThreadSafe == [][C21_AccessStep]_vars /\ []C21_HeldInBody

\* the handler's Update has assigned the stored department a new name
\* while another goroutine holds the departments' lock for its own call
C21_Witness ==
    \E g \in Goroutines, h \in Goroutines :
        /\ g # h
        /\ pc[g] = "lock"
        /\ req[g].handler = "Update:update"
        /\ req[g].arg.ID \in DOMAIN departments
        /\ departments[req[g].arg.ID] = req[g].arg
        /\ Holds(h, deptMu)
        /\ req[h].op = "FindAll"

\* ------------------------------------------------------------------------
\* C22  Validation precedes store access: a create or update request whose
\* body fails validation is answered with the validation failure before
\* its handler has made any repository call, that is, in the first step
\* of the handler.
\* ------------------------------------------------------------------------
ValidationFailure(resp) == resp # None /\ resp.status = 400 /\ resp.msg = "bind"

C22_ValidationStep ==
    ValidationFailure(last') => \A r \in Procs : pc[r] = "idle"

C22_ValidationFirst == [][C22_ValidationStep]_vars

\* an update was answered with a validation failure after its FindByID
\* had found the row
C22_Witness ==
    /\ ValidationFailure(last)
    /\ \/ last.op = "DeptUpdate" /\ Key(last.id) \in DOMAIN departments
       \/ last.op = "EmpUpdate" /\ Key(last.id) \in DOMAIN employees

\* ------------------------------------------------------------------------
\* C23  Name validation: a create or update request for a Department or an
\* Employee whose name is empty after trimming white space is rejected
\* with a validation failure and no row is created or changed: no create
\* or update is answered with success for such a name, and no stored row
\* carries one.
\* ------------------------------------------------------------------------
Writes == {"DeptCreate", "DeptUpdate", "EmpCreate", "EmpUpdate"}

C23_TrimmedName ==
    /\ \A k \in DOMAIN departments :
          TrimSpace(departments[k].Name) # EmptyName
    /\ \A k \in DOMAIN employees : TrimSpace(employees[k].Name) # EmptyName
    /\ last # None /\ last.op \in Writes /\ last.status \in {200, 201} =>
          TrimSpace(last.body.Name) # EmptyName

\* a department was created under a name of white space only
C23_Witness ==
    /\ Sent("DeptCreate", 201)
    /\ last.body.Name = BlankName
    /\ Key(last.id) \in DOMAIN departments
    /\ departments[Key(last.id)].Name = BlankName

\* ========================================================================
\* isValidEmail, applied to the strings of up to MaxEmail characters over
\* an alphabet with a letter, a digit, a character the pattern allows
\* before the @ only, the @, the dot and a space.
\* ========================================================================
MaxEmail == 6

EmailChars == {"a", "1", "_", "@", ".", " "}

EmailStrings == UNION {[1..n -> EmailChars] : n \in 0..MaxEmail}

\* regexp ^[a-zA-Z0-9._%+\-]+@[a-zA-Z0-9.\-]+\.[a-zA-Z]{2,}$ : the string
\* splits at an @ (position i) and a later dot (position j) into a
\* non-empty run of the first class, a non-empty run of the second class
\* and a run of two or more letters
isValidEmail(email) ==
    LET n == Len(email)
        Local == {"a", "1", "_", "."}
        Domain == {"a", "1", "."}
        Letter == {"a"}
        All(from, to, class) == \A x \in from..to : email[x] \in class
    IN \E i \in 1..n, j \in 1..n :
          /\ 1 < i
          /\ i + 1 < j
          /\ j + 2 <= n
          /\ email[i] = "@"
          /\ email[j] = "."
          /\ All(1, i - 1, Local)
          /\ All(i + 1, j - 1, Domain)
          /\ All(j + 1, n, Letter)

InitEmail ==
    /\ impl = "memory"
    /\ departments = <<>>
    /\ employees = <<>>
    /\ nextDept = 0
    /\ nextEmp = 0
    /\ pc = [p \in Procs |-> "idle"]
    /\ req = [p \in Procs |-> NoReq]
    /\ \E email \in EmailStrings :
          call = [NoCall EXCEPT !.op = "input", !.arg = email]
    /\ last = None
    /\ deptMu = Unlocked
    /\ empMu = Unlocked
    /\ inFlight = 1

IsValidEmailCall ==
    /\ call.op = "input"
    /\ call' = [call EXCEPT !.repo = "graph", !.op = "isValidEmail",
                            !.val = isValidEmail(call.arg)]
    /\ UNCHANGED <<impl, departments, employees, nextDept, nextEmp, pc, req,
                   last, deptMu, empMu, inFlight>>

SpecEmail == InitEmail /\ [][IsValidEmailCall]_vars

\* ------------------------------------------------------------------------
\* C24  Email shape: isValidEmail(s) is true exactly when s is
\* local-part@domain.tld with a non-empty local part, exactly one @, no
\* white space, a domain with at least one dot and a non-empty label
\* before its last dot, and a final label of two or more letters.
\* ------------------------------------------------------------------------
Count(s, c) == Cardinality({x \in 1..Len(s) : s[x] = c})

\* the positions of the dots after position from
DotsAfter(s, from) == {x \in (from + 1)..Len(s) : s[x] = "."}

Max(S) == CHOOSE x \in S : \A y \in S : y <= x

LocalAtDomainTld(s) ==
    /\ Count(s, "@") = 1
    /\ Count(s, " ") = 0
    /\ LET at == CHOOSE x \in 1..Len(s) : s[x] = "@"
           dots == DotsAfter(s, at)
       IN /\ at > 1
          /\ dots # {}
          /\ LET lastDot == Max(dots)
                 before == Max({at} \cup (dots \ {lastDot}))
             IN /\ before + 1 < lastDot
                /\ Len(s) - lastDot >= 2
                /\ \A x \in (lastDot + 1)..Len(s) : s[x] = "a"

C24_Shape ==
    call.op = "isValidEmail" => call.val = LocalAtDomainTld(call.arg)

\* isValidEmail accepts an address whose domain has an empty label before
\* its last dot
C24_Witness ==
    /\ call.op = "isValidEmail"
    /\ call.arg = <<"a", "@", ".", ".", "a", "a">>
    /\ call.val = TRUE

\* ------------------------------------------------------------------------
\* C25  Identifier immutability: no step changes the id of a stored row;
\* every key of the two collections maps to a record whose ID is the key;
\* and the steps of an update request leave every other row as it is and
\* change of the updated row only the name (Department) or the name, the
\* email and the department_id (Employee).
\* ------------------------------------------------------------------------
SameIds(old, new) ==
    \A k \in DOMAIN old \cap DOMAIN new : new[k].ID = old[k].ID

\* new is old except for the row k, of which only the fields the update
\* may change differ
OnlyRow(old, new, k, blank(_)) ==
    /\ DOMAIN new = DOMAIN old
    /\ \A x \in DOMAIN old :
          IF x = k THEN blank(new[x]) = blank(old[x]) ELSE new[x] = old[x]

BlankDepartment(d) == [d EXCEPT !.Name = EmptyName]

BlankEmployee(e) ==
    [e EXCEPT !.Name = EmptyName, !.Email = "", !.DepartmentID = BadId]

C25_UpdateStep ==
    /\ SameIds(departments, departments')
    /\ SameIds(employees, employees')
    /\ \A r \in Procs :
          /\ pc[r] \in {"DeptUpdate:bind", "DeptUpdate:update"} =>
                /\ employees' = employees
                /\ OnlyRow(departments, departments', Key(req[r].id),
                           BlankDepartment)
          /\ pc[r] \in {"EmpUpdate:validate", "EmpUpdate:update"} =>
                /\ departments' = departments
                /\ OnlyRow(employees, employees', Key(req[r].id),
                           BlankEmployee)

C25_KeyIsId ==
    /\ \A k \in DOMAIN departments : departments[k].ID = k
    /\ \A k \in DOMAIN employees : employees[k].ID = k

C25_Immutable == [][C25_UpdateStep]_vars /\ []C25_KeyIsId

\* an employee update has changed the name, the email and the department
\* of the stored row, which still carries its id
C25_Witness ==
    /\ Sent("EmpUpdate", 200)
    /\ last.was.Name # last.body.Name
    /\ last.was.Email # last.body.Email
    /\ last.was.DepartmentID # last.body.DepartmentID
    /\ employees[Key(last.id)] = last.body
    /\ last.body.ID = last.was.ID

\* ------------------------------------------------------------------------
\* C26  Known cascade race (in-memory store, requests overlapping): a
\* department delete that reports success has removed the department and
\* every employee it enumerated, so that an employee still stored with the
\* deleted department's id is one that was saved after the Enumerate step:
\* the cascade does not keep such an employee out, and it is left as an
\* orphan.
\* ------------------------------------------------------------------------
OrphansOf(id) ==
    {k \in DOMAIN employees : employees[k].DepartmentID = id}

C26_OrphansAreLate ==
    Sent("DeptDelete", 204) =>
        /\ last.id \notin DOMAIN departments
        /\ OrphansOf(last.id) \cap Range(last.cascade) = {}

\* the race: only one department was ever created, it has been deleted
\* with success by a cascade during which another request took steps, and
\* an employee that the cascade had not enumerated is stored with the
\* deleted department's id
C26_Witness ==
    /\ Sent("DeptDelete", 204)
    /\ ~last.solo
    /\ nextDept = 1
    /\ departments = <<>>
    /\ OrphansOf(last.id) # {}


\* ------------------------------------------------------------------------
\* Two requests from the same store: under way at once, and one after the
\* other
\* ------------------------------------------------------------------------
\* The handlers above are run twice on a pair of write requests, one
\* request per client, from a store base: first with both requests under
\* way at once, then, from the same store again, one after the other in
\* either order.  call keeps the store, the two requests and what the
\* clients got.

WriteOps ==
    {"DeptCreate", "DeptUpdate", "DeptDelete",
     "EmpCreate", "EmpUpdate", "EmpDelete"}

\* a request: for an update or a delete id is the :id of the path, a create
\* has none; body is what an employee request carries besides the name
Request(op, id, body) == [op |-> op, id |-> id, body |-> body]

EmployeeBody(email, deptID) == [Email |-> email, DepartmentID |-> deptID]

\* the requests a client can send once the identifiers up to nd and ne have
\* been issued: a client knows an identifier from a response only
Requests(nd, ne) ==
    {Request("DeptCreate", BadId, None)}
    \cup {Request(op, id, None) :
            op \in {"DeptUpdate", "DeptDelete"}, id \in 1..nd}
    \cup {Request("EmpCreate", BadId, EmployeeBody(email, d)) :
            email \in Emails, d \in 1..nd}
    \cup {Request("EmpUpdate", id, EmployeeBody(email, d)) :
            id \in 1..ne, email \in Emails, d \in 1..nd}
    \cup {Request("EmpDelete", id, None) : id \in 1..ne}

\* the pair is unordered: the client r1 sends the request that comes first
\* in this list
OpRank(op) ==
    CHOOSE i \in 1..6 :
        <<"DeptCreate", "DeptUpdate", "DeptDelete",
          "EmpCreate", "EmpUpdate", "EmpDelete">>[i] = op

\* the creates of script find an identifier left
Room(script, op, n) == Cardinality({r \in Procs : script[r].op = op}) <= n

\* the stores the handlers can leave: every employee in a department that
\* exists, the email addresses distinct where the table says UNIQUE
\* the last identifier issued is that of the newest row
Stores ==
    {[departments |-> d, employees |-> e,
      nextDept |-> Max(DOMAIN d \cup {0}), nextEmp |-> Max(DOMAIN e \cup {0})] :
        d \in UNION {[D -> {MaxName}] : D \in SUBSET DeptIds},
        e \in UNION {[E -> Emails \X DeptIds] : E \in SUBSET EmpIds}}

StoreOK(b, unique) ==
    /\ \A k \in DOMAIN b.employees :
          b.employees[k][2] \in DOMAIN b.departments
    /\ unique => \A j, k \in DOMAIN b.employees :
                    j # k => b.employees[j][1] # b.employees[k][1]

Pair(phase, base, script, first, got) ==
    [repo |-> "pair", op |-> phase, base |-> base, script |-> script,
     first |-> first, got |-> got]

NoneGot == [r \in Procs |-> None]

InitPair ==
    /\ impl \in Impls
    /\ \E b \in Stores :
          /\ StoreOK(b, impl # "memory")
          /\ departments =
                [k \in DOMAIN b.departments |-> Department(k, b.departments[k])]
          /\ employees =
                [k \in DOMAIN b.employees |->
                    Employee(k, MaxName, b.employees[k][1], b.employees[k][2])]
          /\ nextDept = b.nextDept
          /\ nextEmp = b.nextEmp
    /\ pc = [p \in Procs |-> "idle"]
    /\ req = [p \in Procs |-> NoReq]
    /\ \E script \in [Procs -> Requests(nextDept, nextEmp)] :
          /\ OpRank(script["r1"].op) <= OpRank(script["r2"].op)
          /\ Room(script, "DeptCreate", MaxDepts - nextDept)
          /\ Room(script, "EmpCreate", MaxEmps - nextEmp)
          /\ call = Pair("concurrent",
                         [departments |-> departments, employees |-> employees,
                          nextDept |-> nextDept, nextEmp |-> nextEmp],
                         script, None, NoneGot)
    /\ last = None
    /\ deptMu = Unlocked
    /\ empMu = Unlocked
    /\ inFlight = Cardinality(Procs)

\* what the handler of r has read of its request so far is what r sent
Conforms(r) ==
    LET s == call.script[r]
        q == req[r]
    IN /\ q.op # "none" =>
             /\ q.op = s.op
             /\ "id" \in DOMAIN q => q.id = s.id
             /\ pc[r] = "EmpCreate:save" =>
                   /\ q.emp.Email = s.body.Email
                   /\ q.emp.DepartmentID = s.body.DepartmentID
             /\ pc[r] = "EmpUpdate:update" =>
                   /\ q.existing.Email = s.body.Email
                   /\ q.existing.DepartmentID = s.body.DepartmentID
       /\ (last # None /\ last.by = r) =>
             /\ last.op = s.op
             /\ last.msg # "bind"
             /\ s.id # BadId => last.id = s.id
             /\ last.msg = "Invalid department ID" =>
                   last.dept = s.body.DepartmentID

\* a step of the handler that serves the request r sent
PairStep(r) == Handler(r) /\ Conforms(r)'

\* the client has received the response
Collect ==
    /\ Paired
    /\ last # None
    /\ call' = [call EXCEPT !.got[last.by] =
                              [status |-> last.status, msg |-> last.msg]]
    /\ last' = None
    /\ UNCHANGED <<impl, deptMu, empMu, inFlight,
                   departments, employees, nextDept, nextEmp, pc, req>>

Served == \A r \in Procs : call.got[r] # None

\* both requests answered: the same two requests again on the same store,
\* one at a time
Rewind ==
    /\ Paired
    /\ call.op = "concurrent"
    /\ last = None
    /\ Served
    /\ departments' = call.base.departments
    /\ employees' = call.base.employees
    /\ nextDept' = call.base.nextDept
    /\ nextEmp' = call.base.nextEmp
    /\ call' = [call EXCEPT !.op = "serial",
                            !.first = [got |-> call.got,
                                       departments |-> departments,
                                       employees |-> employees],
                            !.got = NoneGot]
    /\ inFlight' = 1
    /\ UNCHANGED <<impl, deptMu, empMu, pc, req, last>>

NextPair == (\E r \in Procs : PairStep(r)) \/ Collect \/ Rewind

SpecPair == InitPair /\ [][NextPair]_vars


\* both runs of the pair are over
PairDone == Paired /\ call.op = "serial" /\ Served /\ last = None

\* uuid.New() draws the identifiers of new rows at random: two runs create
\* the same rows under identifiers of their own, and the stores they leave
\* are compared up to the identifiers issued during the runs
Renamings(ids, issued) ==
    {f \in [ids -> ids] :
        /\ \A k \in ids : k <= issued => f[k] = k
        /\ \A j, k \in ids : j # k => f[j] # f[k]}

RenamedDepartments(m, fd) ==
    [k \in {fd[j] : j \in DOMAIN m} |->
        LET j == CHOOSE i \in DOMAIN m : fd[i] = k
        IN [m[j] EXCEPT !.ID = fd[m[j].ID]]]

RenamedEmployees(m, fe, fd) ==
    [k \in {fe[j] : j \in DOMAIN m} |->
        LET j == CHOOSE i \in DOMAIN m : fe[i] = k
        IN [m[j] EXCEPT !.ID = fe[m[j].ID],
                        !.DepartmentID = IF @ \in DeptIds THEN fd[@] ELSE @]]

SameStore ==
    \E fd \in Renamings(DeptIds, call.base.nextDept),
       fe \in Renamings(EmpIds, call.base.nextEmp) :
        /\ departments = RenamedDepartments(call.first.departments, fd)
        /\ employees = RenamedEmployees(call.first.employees, fe, fd)

\* the two runs agree: each client got the same answer, and the store is
\* the same
Agree == call.first.got = call.got /\ SameStore

IsCreate(s) == s.op \in {"DeptCreate", "EmpCreate"}

OnEmployee(s) == s.op \in {"EmpCreate", "EmpUpdate", "EmpDelete"}

\* the requests target different ids: a create targets the identifier it
\* draws, which is no other row's
Apart(a, b) ==
    \/ IsCreate(a)
    \/ IsCreate(b)
    \/ OnEmployee(a) # OnEmployee(b)
    \/ a.id # b.id

\* the employee row a request on an existing employee targets, as it is in
\* the store the runs start from
TargetRow(s) ==
    IF s.op \in {"EmpUpdate", "EmpDelete"} /\ s.id \in DOMAIN call.base.employees
    THEN {call.base.employees[s.id]}
    ELSE {}

\* a deletes a department that b's employee is in, or is being put into
CascadeReaches(a, b) ==
    /\ a.op = "DeptDelete"
    /\ \/ b.op \in {"EmpCreate", "EmpUpdate"} /\ b.body.DepartmentID = a.id
       \/ \E e \in TargetRow(b) : e.DepartmentID = a.id

\* the email address a puts into a row
EmailSet(a) ==
    IF a.op \in {"EmpCreate", "EmpUpdate"} THEN {a.body.Email} ELSE {}

\* the email addresses of the rows b changes or deletes
EmailsHeld(b) ==
    {e.Email : e \in TargetRow(b)}
    \cup {call.base.employees[k].Email :
            k \in {j \in DOMAIN call.base.employees :
                     /\ b.op = "DeptDelete"
                     /\ call.base.employees[j].DepartmentID = b.id}}

\* on the stores whose employees table has a UNIQUE email column: a puts in
\* an email address that b puts in as well, or that a row b changes holds
EmailContended(a, b) ==
    /\ impl # "memory"
    /\ EmailSet(a) \cap (EmailSet(b) \cup EmailsHeld(b)) # {}

Interfere(a, b) ==
    \/ CascadeReaches(a, b)
    \/ CascadeReaches(b, a)
    \/ EmailContended(a, b)
    \/ EmailContended(b, a)

\* C27 (as stated): any two create/update/delete requests that target
\* different ids commute: under way at once or one after the other in
\* either order from the same store, both get the same outcomes and the
\* store ends in the same state.
C27_Commute ==
    (PairDone /\ Apart(call.script["r1"], call.script["r2"])) => Agree

\* C27 (amended): two create/update/delete requests that target different
\* ids commute unless one deletes a department that the other's employee is
\* in or is being put into, or, on the SQL stores, one sets an email
\* address that the other sets too or that a row the other changes holds.
C27_CommuteApart ==
    (/\ PairDone
     /\ Apart(call.script["r1"], call.script["r2"])
     /\ ~Interfere(call.script["r1"], call.script["r2"])) => Agree

\* C27 witness: two requests on different ids that do not interfere have
\* both succeeded, in both runs, and have changed the store
C27_Witness ==
    /\ PairDone
    /\ Apart(call.script["r1"], call.script["r2"])
    /\ ~Interfere(call.script["r1"], call.script["r2"])
    /\ \A r \in Procs : call.got[r].status \in {200, 201, 204}
    /\ call.script["r1"].op = "DeptDelete"
    /\ call.script["r2"].op = "EmpUpdate"
    /\ Agree


\* ------------------------------------------------------------------------
\* C28
\* ------------------------------------------------------------------------
\* this step is a turn of the loop, or the last step, of the department
\* delete r serves
CascadeActs(r) ==
    /\ pc[r] = "DeptDelete:cascade"
    /\ \/ pc'[r] = "idle"
       \/ req'[r].employees # req[r].employees

\* C28: a department delete for d removes only d and employees that belong
\* to d at the time their row is deleted, whatever the other requests do
\* meanwhile.
C28_CascadeFrame ==
    [][\A r \in Procs :
          CascadeActs(r) =>
             /\ \A k \in DOMAIN employees \ DOMAIN employees' :
                   employees[k].DepartmentID = ParseUUID(req[r].id)
             /\ DOMAIN departments \ DOMAIN departments'
                   \subseteq {ParseUUID(req[r].id)}]_vars


\* C28 witness: the loop of a department delete for d is about to delete an
\* employee that another request has moved to a different department since
\* the loop's list was read
C28_Witness ==
    \E r \in Procs :
        /\ pc[r] = "DeptDelete:cascade"
        /\ req[r].employees # <<>>
        /\ Head(req[r].employees) \in DOMAIN employees
        /\ employees[Head(req[r].employees)].DepartmentID
              # ParseUUID(req[r].id)
        /\ employees[Head(req[r].employees)].DepartmentID \in DOMAIN departments


\* ------------------------------------------------------------------------
\* C29
\* ------------------------------------------------------------------------
\* a goroutine inside a method's body holds the lock of the method's
\* collection and no other; outside it holds none
C29_OneLock ==
    \A g \in Goroutines :
        /\ ~(Holds(g, deptMu) /\ Holds(g, empMu))
        /\ pc[g] \in {"locked", "unlock"} => Holds(g, MuOf(req[g].repo))
        /\ pc[g] \notin {"locked", "unlock"} =>
              ~Holds(g, deptMu) /\ ~Holds(g, empMu)

\* a call that has been issued returns
C29_Returns ==
    \A g \in Goroutines :
        (pc[g] \in {"lock", "wait"}) ~> (pc[g] \in {"idle", "assign"})

\* C29: every repository operation of the in-memory store takes exactly
\* one lock (deptMu for departments, empMu for employees), never holds both
\* and releases it on every return path; under fair scheduling every call
\* of a finite set of concurrent calls returns.
C29_DeadlockFree == []C29_OneLock /\ C29_Returns

\* C29 witness: a writer waits in Lock() for a reader that holds the lock,
\* and a third goroutine is held up behind the writer
C29_Witness ==
    \E g \in Goroutines, h \in Goroutines, k \in Goroutines :
        /\ pc[g] = "wait"
        /\ h \in MuOf(req[g].repo).readers
        /\ pc[h] = "unlock"
        /\ req[h].err # Nil
        /\ pc[k] = "lock"
        /\ req[k].repo = req[g].repo


\* ------------------------------------------------------------------------
\* C30
\* ------------------------------------------------------------------------
\* the two clients send a delete for the same department, or for the same
\* employee
SameDelete(script) ==
    /\ script["r1"] = script["r2"]
    /\ script["r1"].op \in {"DeptDelete", "EmpDelete"}

InitDeletes == InitPair /\ SameDelete(call.script)

\* the handler of each request is a goroutine of its own, which the Go
\* scheduler runs again and again; the responses are delivered
SpecDeletes ==
    /\ InitDeletes
    /\ [][NextPair]_vars
    /\ \A r \in Procs : WF_vars(PairStep(r))
    /\ WF_vars(Collect)
    /\ WF_vars(Rewind)

\* the collection the pair's deletes are on, as stored now and as it was
\* when the requests were sent
DeleteTargets ==
    IF call.script["r1"].op = "DeptDelete" THEN departments ELSE employees

DeleteTargetsBase ==
    IF call.script["r1"].op = "DeptDelete"
    THEN call.base.departments ELSE call.base.employees

\* both deletes are for one row, which is stored when they are sent, and
\* they are under way at once
DeletesOverlap ==
    /\ Paired
    /\ call.op = "concurrent"
    /\ SameDelete(call.script)
    /\ call.script["r1"].id \in DOMAIN DeleteTargetsBase

\* both have been answered: one with 204, the other with an error, and the
\* row is gone
C30_OneWins ==
    (DeletesOverlap /\ Served) =>
        /\ \E r \in Procs :
              /\ call.got[r].status = 204
              /\ \A q \in Others(r) : call.got[q].status \in {404, 500}
        /\ call.script["r1"].id \notin DOMAIN DeleteTargets

\* the row is removed once: it does not come back while the deletes run,
\* and the request that is answered 204 is the one whose step removed it
C30_RemovedOnce ==
    DeletesOverlap =>
        /\ call.script["r1"].id \notin DOMAIN DeleteTargets =>
              \/ call.script["r1"].id \notin DOMAIN DeleteTargets'
              \/ call'.op = "serial"
        /\ (last' # None /\ last'.status = 204 /\ last = None) =>
              /\ call.script["r1"].id \in DOMAIN DeleteTargets
              /\ call.script["r1"].id \notin DOMAIN DeleteTargets'

\* both requests are answered
C30_Terminate == DeletesOverlap ~> (DeletesOverlap /\ Served)

\* C30: of two concurrent deletes of the same department id (or employee
\* id) whose row exists, exactly one reports success and the other a
\* failure; the row is removed exactly once and both requests terminate.
C30_SameTarget ==
    /\ []C30_OneWins
    /\ [][C30_RemovedOnce]_vars
    /\ C30_Terminate

\* C30 witness: both deletes of a department with an employee had passed
\* the existence check before either removed the row; one was answered 204
\* and the other 500
C30_Witness ==
    /\ DeletesOverlap
    /\ Served
    /\ call.script["r1"].op = "DeptDelete"
    /\ \E k \in DOMAIN call.base.employees :
          call.base.employees[k].DepartmentID = call.script["r1"].id
    /\ \E r \in Procs :
          /\ call.got[r].status = 204
          /\ \A q \in Others(r) : call.got[q].status = 500

====
